---------------------------- MODULE Spec2Model ----------------------------
(***************************************************************************)
(* State-machine model of the parallel bond-fluctuation-model engine       *)
(* UpdaterGPUScBFM_AB_Type (src/src/pscbfm/UpdaterGPUScBFM_AB_Type.cu):    *)
(* the staging calls, initialize, runSimulationOnGPU, cleanup and the      *)
(* three kernels kernelSimulationScBFMCheckSpecies / PerformSpecies /      *)
(* ZeroArraySpecies.                                                       *)
(*                                                                         *)
(* Byte lattices that only ever hold 0 or 1 are represented by the set of  *)
(* linear indices whose cell is non-zero.  Zero-initialised index arrays   *)
(* are represented by the function of their written entries.               *)
(***************************************************************************)
EXTENDS Integers, Sequences, FiniteSets, TLC

(***************************************************************************)
(* Bounds of the model                                                     *)
(***************************************************************************)
\* largest nMonteCarloSteps passed to runSimulationOnGPU
MaxSteps == 1
\* number of entries of SeedTable the random generator may return
NumSeeds == 2
\* kernel launches the stream may hold before the host blocks
MaxQueue == 3
\* calls of the staging and lifecycle interface one run of the caller makes
MaxCalls == 3
MaxColor == 3

(***************************************************************************)
(* Program constants                                                       *)
(***************************************************************************)
MAX_CONNECTIVITY == 7
nElementsAlignment == 32
nRequiredAllowedBonds == 108
mStream == 0

(***************************************************************************)
(* 32-bit unsigned words as <<high 16 bits, low 16 bits>>                  *)
(***************************************************************************)
Half == 256 * 256

RECURSIVE Pow2(_)
Pow2(k) ==
    IF k = 0 THEN 1
    ELSE IF k >= 4 THEN 16 * Pow2(k - 4)
    ELSE 2 * Pow2(k - 1)

\* bitwise AND of a two's-complement integer a with a mask m >= 0
RECURSIVE BitAnd(_, _)
BitAnd(a, m) ==
    IF m = 0 THEN 0
    ELSE ((a % 2) * (m % 2)) + 2 * BitAnd(a \div 2, m \div 2)

\* XOR of bit k of a and b, at its place
XorBit(a, b, k) == (((a \div Pow2(k)) + (b \div Pow2(k))) % 2) * Pow2(k)

\* bitwise XOR of two naturals, four bits at a time
RECURSIVE BitXor(_, _)
BitXor(a, b) ==
    IF a = 0 THEN b
    ELSE IF b = 0 THEN a
    ELSE (XorBit(a, b, 0) + XorBit(a, b, 1)) + (XorBit(a, b, 2) + XorBit(a, b, 3))
           + 16 * BitXor(a \div 16, b \div 16)

Word(n) == << n \div Half, n % Half >>

WAdd(a, b) ==
    LET lo == a[2] + b[2]
    IN  << (a[1] + b[1] + (lo \div Half)) % Half, lo % Half >>

WXor(a, b) == << BitXor(a[1], b[1]), BitXor(a[2], b[2]) >>

\* a << k for 0 < k < 16
WShl(a, k) ==
    << ((a[1] * Pow2(k)) + (a[2] \div Pow2(16 - k))) % Half,
       (a[2] * Pow2(k)) % Half >>

\* a >> k for 16 <= k < 32
WShr(a, k) == << 0, a[1] \div Pow2(k - 16) >>

WMod6(a) == (((a[1] % 6) * (Half % 6)) + (a[2] % 6)) % 6

\* Wang/Jenkins integer hash
hash(a0) ==
    LET a1 == WAdd(WAdd(a0, << 32469, 23830 >>), WShl(a0, 12))
        a2 == WXor(WXor(a1, << 51041, 49724 >>), WShr(a1, 19))
        a3 == WAdd(WAdd(a2, << 5718, 26545 >>), WShl(a2, 5))
        a4 == WXor(WAdd(a3, << 54178, 25708 >>), WShl(a3, 9))
        a5 == WAdd(WAdd(a4, << 64880, 18117 >>), WShl(a4, 3))
        a6 == WXor(WXor(a5, << 46426, 20233 >>), WShr(a5, 16))
    IN  a6


\* values r250_rand32 may return as the seed of a substep
SeedTable == << 58, 0, 1, 68, 34, 14 >>

SeedValues == { SeedTable[k] : k \in 1..Len(SeedTable) }

\* hash( iMonomer ) for the worker indices of the model
HashOfIndex == [ m \in 0..(2 * nElementsAlignment) |-> hash(Word(m)) ]

\* hash( h ^ rSeed ) % 6 for a hashed index h
DirectionOfHash ==
    [ h \in (0..(Half - 1)) \X (0..(Half - 1)), s \in SeedValues |->
        WMod6(hash(WXor(h, Word(s)))) ]

\* the direction drawn by worker iMonomer of a launch with seed rSeed (line 399)
DrawDirection(iMonomer, rSeed) == DirectionOfHash[HashOfIndex[iMonomer], rSeed]

\* the draws of the model, made once
DirectionTable ==
    [ m \in 0..(2 * nElementsAlignment), s \in SeedValues |-> DrawDirection(m, s) ]

(***************************************************************************)
(* Direction tables copied to constant memory by initialize                *)
(***************************************************************************)
DXTable_d == << -1, 1, 0, 0, 0, 0 >>
DYTable_d == << 0, 0, -1, 1, 0, 0 >>
DZTable_d == << 0, 0, 0, 0, -1, 1 >>

(***************************************************************************)
(* Box arithmetic.  A box is the record of the cached members              *)
(* [X, Y, Z, XM1, YM1, ZM1, XLog2, XYLog2].                                *)
(***************************************************************************)

linearizeBoxVectorIndex(b, ix, iy, iz) ==
    BitAnd(ix, b.XM1)
      + (BitAnd(iy, b.YM1) * Pow2(b.XLog2))
      + (BitAnd(iz, b.ZM1) * Pow2(b.XYLog2))

linearizeBondVectorIndex(x, y, z) ==
    BitAnd(x, 7) + (BitAnd(y, 7) * 8) + (BitAnd(z, 7) * 64)

\* variant: the plane two steps ahead is not reduced modulo the box
checkFrontCells_NoWrap(b, x0, y0, z0, axis) ==
    LET xs == { BitAnd(x0 + d, b.XM1) : d \in {-1, 0, 1} }
        ys == { BitAnd(y0 + d, b.YM1) * Pow2(b.XLog2) : d \in {-1, 0, 1} }
        zs == { BitAnd(z0 + d, b.ZM1) * Pow2(b.XYLog2) : d \in {-1, 0, 1} }
        x1 == x0 + (2 * DXTable_d[axis + 1])
        y1 == (y0 + (2 * DYTable_d[axis + 1])) * Pow2(b.XLog2)
        z1 == (z0 + (2 * DZTable_d[axis + 1])) * Pow2(b.XYLog2)
    IN  CASE axis \div 2 = 0 -> { x1 + y + z : y \in ys, z \in zs }
          [] axis \div 2 = 1 -> { x + y1 + z : x \in xs, z \in zs }
          [] axis \div 2 = 2 -> { x + y + z1 : x \in xs, y \in ys }
          [] OTHER -> {}

\* the nine cells of the 3x3 face two steps ahead in direction axis
\* variant: the face one cell ahead of the origin instead of two
checkFrontCells_OneAhead(b, x0, y0, z0, axis) ==
    LET xs == { BitAnd(x0 + d, b.XM1) : d \in {-1, 0, 1} }
        ys == { BitAnd(y0 + d, b.YM1) * Pow2(b.XLog2) : d \in {-1, 0, 1} }
        zs == { BitAnd(z0 + d, b.ZM1) * Pow2(b.XYLog2) : d \in {-1, 0, 1} }
        x1 == BitAnd(x0 + DXTable_d[axis + 1], b.XM1)
        y1 == BitAnd(y0 + DYTable_d[axis + 1], b.YM1) * Pow2(b.XLog2)
        z1 == BitAnd(z0 + DZTable_d[axis + 1], b.ZM1) * Pow2(b.XYLog2)
    IN  CASE axis \div 2 = 0 -> { x1 + y + z : y \in ys, z \in zs }
          [] axis \div 2 = 1 -> { x + y1 + z : x \in xs, z \in zs }
          [] axis \div 2 = 2 -> { x + y + z1 : x \in xs, y \in ys }
          [] OTHER -> {}

checkFrontCells(b, x0, y0, z0, axis) ==
    LET xs == { BitAnd(x0 + d, b.XM1) : d \in {-1, 0, 1} }
        ys == { BitAnd(y0 + d, b.YM1) * Pow2(b.XLog2) : d \in {-1, 0, 1} }
        zs == { BitAnd(z0 + d, b.ZM1) * Pow2(b.XYLog2) : d \in {-1, 0, 1} }
        dx == DXTable_d[axis + 1]
        dy == DYTable_d[axis + 1]
        dz == DZTable_d[axis + 1]
        x1 == BitAnd(x0 + (2 * dx), b.XM1)
        y1 == BitAnd(y0 + (2 * dy), b.YM1) * Pow2(b.XLog2)
        z1 == BitAnd(z0 + (2 * dz), b.ZM1) * Pow2(b.XYLog2)
    IN  CASE axis \div 2 = 0 -> { x1 + y + z : y \in ys, z \in zs }
          [] axis \div 2 = 1 -> { x + y1 + z : x \in xs, z \in zs }
          [] axis \div 2 = 2 -> { x + y + z1 : x \in xs, y \in ys }
          [] OTHER -> {}

checkFront(b, lattice, x0, y0, z0, axis) ==
    checkFrontCells(b, x0, y0, z0, axis) \cap lattice # {}

BitOr(a, b) == (a + b) - BitAnd(a, b)

\* UINT32_MAX, held as its two's-complement value
UINT32_MAX == 0 - 1

\* a >= b for two uint32_t, either of which may be UINT32_MAX
UGreaterEq(a, b) == IF a < 0 THEN TRUE ELSE IF b < 0 THEN FALSE ELSE a >= b

ceilDiv(a, b) == (a + b - 1) \div b

Max(S) == CHOOSE v \in S : \A w \in S : w <= v
Min(S) == CHOOSE v \in S : \A w \in S : v <= w

(***************************************************************************)
(* setLatticeSize: the cached box members                                  *)
(***************************************************************************)
RECURSIVE Log2Floor(_)
Log2Floor(n) == IF n \div 2 = 0 THEN 0 ELSE 1 + Log2Floor(n \div 2)

LatticeSizeMembers(boxX, boxY, boxZ) ==
    [ X |-> boxX, Y |-> boxY, Z |-> boxZ,
      XM1 |-> boxX - 1, YM1 |-> boxY - 1, ZM1 |-> boxZ - 1,
      XLog2 |-> Log2Floor(boxX), XYLog2 |-> Log2Floor(boxX * boxY) ]

(***************************************************************************)
(* The standard bond set delivered through copyBondSet: 108 allowed        *)
(* vectors, every other entry of the 512-entry table forbidden.            *)
(***************************************************************************)
Abs(v) == IF v < 0 THEN 0 - v ELSE v

BondComponents == (0 - 4)..3

BFMAllowed(dx, dy, dz) ==
    LET a == Abs(dx)  b == Abs(dy)  c == Abs(dz)
        hi == Max({a, b, c})
        lo == Min({a, b, c})
        mid == (a + b + c) - hi - lo
    IN  << lo, mid, hi >> \in { << 0, 0, 2 >>, << 0, 1, 2 >>, << 1, 1, 2 >>,
                                << 1, 2, 2 >>, << 0, 0, 3 >>, << 0, 1, 3 >> }

\* mForbiddenBonds after copyBondSet( dx, dy, dz, ! allowed ) for every vector
StandardForbiddenBonds ==
    { linearizeBondVectorIndex(dx, dy, dz) :
        << dx, dy, dz >> \in { v \in BondComponents \X BondComponents \X BondComponents :
                                 ~ BFMAllowed(v[1], v[2], v[3]) } }

(***************************************************************************)
(* initialize: grouping                                                    *)
(***************************************************************************)
\* variant: the neighbour count handed to graphColoring is one too small
MonomerEdgesSize_OneLess(x, i) == Len(x[i]) - 1

\* the two accessors initialize hands to graphColoring (lines 758-759)
MonomerEdgesSize(x, i) == Len(x[i])

MonomerEdgesNeighborId(x, i, j) == x[i][j + 1]

\* graphColoring: smallest colour not used by an already coloured neighbour
RECURSIVE GreedyColors(_, _, _)
GreedyColors(neigh, n, i) ==
    IF i = 0 THEN << >>
    ELSE LET prev == GreedyColors(neigh, n, i - 1)
             ids == { MonomerEdgesNeighborId(neigh, i - 1, j) :
                        j \in 0..(MonomerEdgesSize(neigh, i - 1) - 1) }
             used == { prev[k + 1] : k \in ids \cap (0..(i - 2)) }
             c == Min({ k \in 0..(i - 1) : k \notin used })
         IN  Append(prev, c)

graphColoring(neigh, n) ==
    LET cs == GreedyColors(neigh, n, n)
    IN  [ i \in 0..(n - 1) |-> cs[i + 1] ]

\* mnElementsInGroup after the counting loop (lines 788-796)
CountElementsInGroup(groupIds, n) ==
    IF n = 0 THEN << >>
    ELSE [ c \in 1..(Max({ groupIds[i] : i \in 0..(n - 1) }) + 1) |->
             Cardinality({ i \in 0..(n - 1) : groupIds[i] = c - 1 }) ]

\* variant: the offsets are the running sum of the unpadded species sizes
RECURSIVE SubGroupOffset_Unpadded(_, _)
SubGroupOffset_Unpadded(nInGroup, c) ==
    IF c = 0 THEN 0
    ELSE SubGroupOffset_Unpadded(nInGroup, c - 1) + nInGroup[c]

\* iSubGroupOffset (lines 832-839); species c is entry c + 1
RECURSIVE SubGroupOffset(_, _)
SubGroupOffset(nInGroup, c) ==
    IF c = 0 THEN 0
    ELSE SubGroupOffset(nInGroup, c - 1)
           + (ceilDiv(nInGroup[c], nElementsAlignment) * nElementsAlignment)

SubGroupOffsets(nInGroup) ==
    [ c \in 1..Len(nInGroup) |-> SubGroupOffset(nInGroup, c - 1) ]

nMonomersPaddedOf(n, nInGroup) == n + ((nElementsAlignment - 1) * Len(nInGroup))

\* iToiNew (lines 842-849): the next free index of the monomer's species
SortIndex(groupIds, offsets, n) ==
    [ i \in 0..(n - 1) |->
        offsets[groupIds[i] + 1]
          + Cardinality({ j \in 0..(i - 1) : groupIds[j] = groupIds[i] }) ]

\* iNewToi: resize keeps the entries the vector already has, fills the new
\* ones with UINT32_MAX, and line 848 writes the slot of every monomer
InverseSortIndex(old, toNew, n, nPadded) ==
    [ j \in 0..(nPadded - 1) |->
        IF \E i \in 0..(n - 1) : toNew[i] = j
        THEN Max({ i \in 0..(n - 1) : toNew[i] = j })
        ELSE IF j \in DOMAIN old THEN old[j]
        ELSE UINT32_MAX ]

\* mNeighborsSortedInfo: one matrix of MAX_CONNECTIVITY rows per species,
\* each row padded to the alignment
MatrixPitchElements(nInGroup, c) ==
    ceilDiv(nInGroup[c + 1], nElementsAlignment) * nElementsAlignment

RECURSIVE MatrixOffsetElements(_, _)
MatrixOffsetElements(nInGroup, c) ==
    IF c = 0 THEN 0
    ELSE MatrixOffsetElements(nInGroup, c - 1)
           + (MAX_CONNECTIVITY * MatrixPitchElements(nInGroup, c - 1))

NeighborsSortedInfo(nInGroup) ==
    [ c \in 1..Len(nInGroup) |->
        [ offset |-> MatrixOffsetElements(nInGroup, c - 1),
          pitch |-> MatrixPitchElements(nInGroup, c - 1) ] ]

\* getRequiredElements: the end of the last matrix registered so far
RequiredElements(info) ==
    IF info = << >> THEN 0
    ELSE info[Len(info)].offset + (MAX_CONNECTIVITY * info[Len(info)].pitch)

\* lines 874-875: newMatrix adds one matrix per species behind those the
\* object already holds
NewMatrices(info, nInGroup) ==
    info \o [ c \in 1..Len(nInGroup) |->
                [ offset |-> RequiredElements(info)
                               + NeighborsSortedInfo(nInGroup)[c].offset,
                  pitch |-> NeighborsSortedInfo(nInGroup)[c].pitch ] ]

\* lines 909-917: the species the loop works on at sorted index i; it steps
\* iSpecies at most once per index
\* The loop starts with iSpecies = 0 and steps it at index i when
\* iSpecies + 1 < iSubGroupOffset.size() and i >= iSubGroupOffset[iSpecies + 1]:
\* SpeciesEntered(offsets, s) is the index at which iSpecies becomes s, the
\* later of the index after the one where it became s - 1 and the offset of s.
RECURSIVE SpeciesEntered(_, _)
SpeciesEntered(offsets, s) ==
    IF s = 0 THEN 0 - 1
    ELSE LET previous == SpeciesEntered(offsets, s - 1) + 1
         IN  IF offsets[s + 1] > previous THEN offsets[s + 1] ELSE previous

LoopSpecies(offsets, i) ==
    Max({ s \in 0..(Len(offsets) - 1) : SpeciesEntered(offsets, s) <= i })

\* line 929: where neighbour j of the monomer at sorted index i is written
NeighborSlot(offsets, info, i, j) ==
    LET iSpecies == LoopSpecies(offsets, i)
    IN  info[iSpecies + 1].offset + (j * info[iSpecies + 1].pitch)
          + (i - offsets[iSpecies + 1])

\* lines 905-933: the written entries of mNeighborsSorted; the later write wins
NeighborsSorted(neigh, n, nPadded, toNew, newToOld, offsets, info) ==
    LET real == { i \in 0..(nPadded - 1) : ~ UGreaterEq(newToOld[i], n) }
        slots(i) == 0..(Len(neigh[newToOld[i]]) - 1)
        written == UNION { { NeighborSlot(offsets, info, i, j) : j \in slots(i) } :
                             i \in real }
    IN  [ k \in written |->
            LET i == Max({ ii \in real :
                             \E j \in slots(ii) : NeighborSlot(offsets, info, ii, j) = k })
                j == Max({ jj \in slots(i) : NeighborSlot(offsets, info, i, jj) = k })
            IN  toNew[neigh[newToOld[i]][j + 1]] ]

\* an entry of the zero-filled mNeighborsSorted
NeighborAt(neighbors, k) == IF k \in DOMAIN neighbors THEN neighbors[k] ELSE 0

\* lines 973-975: the neighbour count goes into bits 5-7 of the tag
TagWithNeighbors(sys, neigh, n) ==
    [ i \in 0..(n - 1) |->
        << sys[i][1], sys[i][2], sys[i][3], BitOr(sys[i][4], Len(neigh[i]) * 32) >> ]

\* variant: monomer i is written to sorted index i
SortPolymerSystem_Unpermuted(sys, toNew, n, nPadded, padding) ==
    [ j \in 0..(nPadded - 1) |-> IF j < n THEN sys[j] ELSE padding ]

\* lines 977-988: the monomers in sorted order; padding slots are never written
SortPolymerSystem(sys, toNew, n, nPadded, padding) ==
    [ j \in 0..(nPadded - 1) |->
        IF \E i \in 0..(n - 1) : toNew[i] = j
        THEN sys[Max({ i \in 0..(n - 1) : toNew[i] = j })]
        ELSE padding ]

\* lines 1003-1018: the committed lattice holds 1 at every monomer's corner
\* variant: the cell index is computed from the unmasked coordinates
PrimedLattice_Unmasked(b, sys, n) ==
    { sys[i][1] + (sys[i][2] * Pow2(b.XLog2)) + (sys[i][3] * Pow2(b.XYLog2)) :
        i \in 0..(n - 1) }

\* lines 1000-1019: the cells of mLatticeOut that initialize sets to 1
PrimedLattice(b, sys, n) ==
    { linearizeBoxVectorIndex(b, sys[i][1], sys[i][2], sys[i][3]) : i \in 0..(n - 1) }

(***************************************************************************)
(* The kernels, one worker at a time.  D is the device memory a kernel     *)
(* works on, [sys, flags, latOut, latTmp]: mPolymerSystemSorted->gpu,      *)
(* mPolymerFlags->gpu, mLatticeOut->gpu and mLatticeTmp->gpu.  K holds     *)
(* what the kernels only read: [box, forbidden, neighbors, nonper].        *)
(***************************************************************************)
\* variant: the seed is left out of the hash
Direction_WithoutSeed(iMonomer, rSeed) == DirectionTable[iMonomer, 0]

\* line 399: hash( hash( iMonomer ) ^ rSeed ) % 6
Direction(iMonomer, rSeed) == DirectionTable[iMonomer, rSeed]

\* variant: a vector with a component beyond 3 is not looked up
BondForbidden_LooksUpShortOnly(D, K, dpNeighbors, pitch, iMonomer, nx, ny, nz, nNeighbors) ==
    \E iNeighbor \in 0..(nNeighbors - 1) :
        LET iGlobalNeighbor ==
                NeighborAt(K.neighbors, dpNeighbors + (iNeighbor * pitch) + iMonomer)
            data2 == D.sys[iGlobalNeighbor]
        IN  /\ { data2[1] - nx, data2[2] - ny, data2[3] - nz } \subseteq (0 - 3)..3
            /\ linearizeBondVectorIndex(data2[1] - nx, data2[2] - ny, data2[3] - nz)
                  \in K.forbidden

\* variant: the loop over the neighbours starts at 1
BondForbidden_SkipsFirst(D, K, dpNeighbors, pitch, iMonomer, nx, ny, nz, nNeighbors) ==
    \E iNeighbor \in 1..(nNeighbors - 1) :
        LET iGlobalNeighbor ==
                NeighborAt(K.neighbors, dpNeighbors + (iNeighbor * pitch) + iMonomer)
            data2 == D.sys[iGlobalNeighbor]
        IN  linearizeBondVectorIndex(data2[1] - nx, data2[2] - ny, data2[3] - nz)
              \in K.forbidden

\* the bond test of the check kernel (lines 420-427)
BondForbidden(D, K, dpNeighbors, pitch, iMonomer, nx, ny, nz, nNeighbors) ==
    \E iNeighbor \in 0..(nNeighbors - 1) :
        LET iGlobalNeighbor ==
                NeighborAt(K.neighbors, dpNeighbors + (iNeighbor * pitch) + iMonomer)
            data2 == D.sys[iGlobalNeighbor]
        IN  linearizeBondVectorIndex(data2[1] - nx, data2[2] - ny, data2[3] - nz)
              \in K.forbidden

\* variant: a move the face test refuses is marked on the scratch lattice
kernelSimulationScBFMCheckSpecies_MarksRefused(D, K, iOffset, dpNeighbors, pitch, rSeed, iMonomer) ==
    LET data == D.sys[iOffset + iMonomer]
        direction == Direction(iMonomer, rSeed)
        nx == data[1] + DXTable_d[direction + 1]
        ny == data[2] + DYTable_d[direction + 1]
        nz == data[3] + DZTable_d[direction + 1]
        cleared == [ D EXCEPT !.flags[iMonomer + iOffset] = 0 ]
        inside == /\ 0 <= nx /\ nx < K.box.XM1
                  /\ 0 <= ny /\ ny < K.box.YM1
                  /\ 0 <= nz /\ nz < K.box.ZM1
    IN  IF K.nonper /\ ~ inside THEN cleared
        ELSE IF BondForbidden(D, K, dpNeighbors, pitch, iMonomer, nx, ny, nz,
                              BitAnd(data[4] \div 32, 7)) THEN cleared
        ELSE IF checkFront(K.box, D.latOut, data[1], data[2], data[3], direction)
             THEN [ cleared EXCEPT
                      !.latTmp = @ \cup { linearizeBoxVectorIndex(K.box, nx, ny, nz) } ]
        ELSE [ D EXCEPT !.flags[iMonomer + iOffset] = (direction * 4) + 1,
                        !.latTmp = @ \cup { linearizeBoxVectorIndex(K.box, nx, ny, nz) } ]

\* variant: the face test reads the scratch lattice
kernelSimulationScBFMCheckSpecies_ReadsScratch(D, K, iOffset, dpNeighbors, pitch, rSeed, iMonomer) ==
    LET data == D.sys[iOffset + iMonomer]
        direction == Direction(iMonomer, rSeed)
        nx == data[1] + DXTable_d[direction + 1]
        ny == data[2] + DYTable_d[direction + 1]
        nz == data[3] + DZTable_d[direction + 1]
        cleared == [ D EXCEPT !.flags[iMonomer + iOffset] = 0 ]
        inside == /\ 0 <= nx /\ nx < K.box.XM1
                  /\ 0 <= ny /\ ny < K.box.YM1
                  /\ 0 <= nz /\ nz < K.box.ZM1
    IN  IF K.nonper /\ ~ inside THEN cleared
        ELSE IF BondForbidden(D, K, dpNeighbors, pitch, iMonomer, nx, ny, nz,
                              BitAnd(data[4] \div 32, 7)) THEN cleared
        ELSE IF checkFront(K.box, D.latTmp, data[1], data[2], data[3], direction)
             THEN cleared
        ELSE [ D EXCEPT !.flags[iMonomer + iOffset] = (direction * 4) + 1,
                        !.latTmp = @ \cup { linearizeBoxVectorIndex(K.box, nx, ny, nz) } ]

\* variant: the boundary test admits the last index of each axis
kernelSimulationScBFMCheckSpecies_InclusiveBound(D, K, iOffset, dpNeighbors, pitch, rSeed, iMonomer) ==
    LET data == D.sys[iOffset + iMonomer]
        direction == Direction(iMonomer, rSeed)
        nx == data[1] + DXTable_d[direction + 1]
        ny == data[2] + DYTable_d[direction + 1]
        nz == data[3] + DZTable_d[direction + 1]
        cleared == [ D EXCEPT !.flags[iMonomer + iOffset] = 0 ]
        inside == /\ 0 <= nx /\ nx <= K.box.XM1
                  /\ 0 <= ny /\ ny <= K.box.YM1
                  /\ 0 <= nz /\ nz <= K.box.ZM1
    IN  IF K.nonper /\ ~ inside THEN cleared
        ELSE IF BondForbidden(D, K, dpNeighbors, pitch, iMonomer, nx, ny, nz,
                              BitAnd(data[4] \div 32, 7)) THEN cleared
        ELSE IF checkFront(K.box, D.latOut, data[1], data[2], data[3], direction)
             THEN cleared
        ELSE [ D EXCEPT !.flags[iMonomer + iOffset] = (direction * 4) + 1,
                        !.latTmp = @ \cup { linearizeBoxVectorIndex(K.box, nx, ny, nz) } ]

\* lines 389-437
\* variant: a refused worker leaves the flag as it finds it
kernelSimulationScBFMCheckSpecies_KeepsStaleFlag(D, K, iOffset, dpNeighbors, pitch, rSeed, iMonomer) ==
    LET data == D.sys[iOffset + iMonomer]
        x0 == data[1]
        y0 == data[2]
        z0 == data[3]
        direction == Direction(iMonomer, rSeed)
        dx == DXTable_d[direction + 1]
        dy == DYTable_d[direction + 1]
        dz == DZTable_d[direction + 1]
        inside == /\ 0 <= x0 + dx /\ x0 + dx < K.box.XM1
                  /\ 0 <= y0 + dy /\ y0 + dy < K.box.YM1
                  /\ 0 <= z0 + dz /\ z0 + dz < K.box.ZM1
        nNeighbors == BitAnd(data[4] \div 32, 7)
    IN  IF K.nonper /\ ~ inside THEN D
        ELSE IF BondForbidden(D, K, dpNeighbors, pitch, iMonomer,
                              x0 + dx, y0 + dy, z0 + dz, nNeighbors) THEN D
        ELSE IF checkFront(K.box, D.latOut, x0, y0, z0, direction) THEN D
        ELSE [ D EXCEPT !.flags[iMonomer + iOffset] = (direction * 4) + 1,
                        !.latTmp = @ \cup { linearizeBoxVectorIndex(
                                              K.box, x0 + dx, y0 + dy, z0 + dz) } ]

\* variant: the flag is written at the worker's index within its species
kernelSimulationScBFMCheckSpecies_FlagUnshifted(D, K, iOffset, dpNeighbors, pitch, rSeed, iMonomer) ==
    LET data == D.sys[iOffset + iMonomer]
        x0 == data[1]
        y0 == data[2]
        z0 == data[3]
        direction == Direction(iMonomer, rSeed)
        dx == DXTable_d[direction + 1]
        dy == DYTable_d[direction + 1]
        dz == DZTable_d[direction + 1]
        cleared == [ D EXCEPT !.flags[iMonomer] = 0 ]
        inside == /\ 0 <= x0 + dx /\ x0 + dx < K.box.XM1
                  /\ 0 <= y0 + dy /\ y0 + dy < K.box.YM1
                  /\ 0 <= z0 + dz /\ z0 + dz < K.box.ZM1
        nNeighbors == BitAnd(data[4] \div 32, 7)
    IN  IF K.nonper /\ ~ inside THEN cleared
        ELSE IF BondForbidden(D, K, dpNeighbors, pitch, iMonomer,
                              x0 + dx, y0 + dy, z0 + dz, nNeighbors) THEN cleared
        ELSE IF checkFront(K.box, D.latOut, x0, y0, z0, direction) THEN cleared
        ELSE [ D EXCEPT !.flags[iMonomer] = (direction * 4) + 1,
                        !.latTmp = @ \cup { linearizeBoxVectorIndex(
                                              K.box, x0 + dx, y0 + dy, z0 + dz) } ]

kernelSimulationScBFMCheckSpecies(D, K, iOffset, dpNeighbors, pitch, rSeed, iMonomer) ==
    LET data == D.sys[iOffset + iMonomer]
        x0 == data[1]
        y0 == data[2]
        z0 == data[3]
        direction == Direction(iMonomer, rSeed)
        dx == DXTable_d[direction + 1]
        dy == DYTable_d[direction + 1]
        dz == DZTable_d[direction + 1]
        cleared == [ D EXCEPT !.flags[iMonomer + iOffset] = 0 ]
        inside == /\ 0 <= x0 + dx /\ x0 + dx < K.box.XM1
                  /\ 0 <= y0 + dy /\ y0 + dy < K.box.YM1
                  /\ 0 <= z0 + dz /\ z0 + dz < K.box.ZM1
        nNeighbors == BitAnd(data[4] \div 32, 7)
    IN  IF K.nonper /\ ~ inside THEN cleared
        ELSE IF BondForbidden(D, K, dpNeighbors, pitch, iMonomer,
                              x0 + dx, y0 + dy, z0 + dz, nNeighbors) THEN cleared
        ELSE IF checkFront(K.box, D.latOut, x0, y0, z0, direction) THEN cleared
        ELSE [ D EXCEPT !.flags[iMonomer + iOffset] = (direction * 4) + 1,
                        !.latTmp = @ \cup { linearizeBoxVectorIndex(
                                              K.box, x0 + dx, y0 + dy, z0 + dz) } ]

\* variant: a worker that moves clears its own mark on the scratch lattice
kernelSimulationScBFMPerformSpecies_CleansScratch(D, K, iOffset, iMonomer) ==
    LET data == D.sys[iOffset + iMonomer]
        properties == D.flags[iOffset + iMonomer]
        direction == BitAnd(properties \div 4, 7)
        dest == linearizeBoxVectorIndex(K.box, data[1] + DXTable_d[direction + 1],
                                        data[2] + DYTable_d[direction + 1],
                                        data[3] + DZTable_d[direction + 1])
    IN  IF BitAnd(properties, 1) = 0 THEN D
        ELSE IF checkFront(K.box, D.latTmp, data[1], data[2], data[3], direction) THEN D
        ELSE [ D EXCEPT !.flags[iOffset + iMonomer] = BitOr(properties, 2),
                        !.latOut = (@ \cup { dest })
                                     \ { linearizeBoxVectorIndex(
                                           K.box, data[1], data[2], data[3]) },
                        !.latTmp = @ \ { dest } ]

\* variant: the source cell of the committed lattice is not cleared
kernelSimulationScBFMPerformSpecies_KeepsSource(D, K, iOffset, iMonomer) ==
    LET data == D.sys[iOffset + iMonomer]
        properties == D.flags[iOffset + iMonomer]
        direction == BitAnd(properties \div 4, 7)
        dx == DXTable_d[direction + 1]
        dy == DYTable_d[direction + 1]
        dz == DZTable_d[direction + 1]
    IN  IF BitAnd(properties, 1) = 0 THEN D
        ELSE IF checkFront(K.box, D.latTmp, data[1], data[2], data[3], direction) THEN D
        ELSE [ D EXCEPT !.flags[iOffset + iMonomer] = BitOr(properties, 2),
                        !.latOut = @ \cup { linearizeBoxVectorIndex(
                                              K.box, data[1] + dx, data[2] + dy,
                                              data[3] + dz) } ]

\* variant: the face test reads the committed lattice
kernelSimulationScBFMPerformSpecies_ReadsCommitted(D, K, iOffset, iMonomer) ==
    LET data == D.sys[iOffset + iMonomer]
        properties == D.flags[iOffset + iMonomer]
        direction == BitAnd(properties \div 4, 7)
        dx == DXTable_d[direction + 1]
        dy == DYTable_d[direction + 1]
        dz == DZTable_d[direction + 1]
    IN  IF BitAnd(properties, 1) = 0 THEN D
        ELSE IF checkFront(K.box, D.latOut, data[1], data[2], data[3], direction) THEN D
        ELSE [ D EXCEPT !.flags[iOffset + iMonomer] = BitOr(properties, 2),
                        !.latOut = (@ \cup { linearizeBoxVectorIndex(
                                               K.box, data[1] + dx, data[2] + dy,
                                               data[3] + dz) })
                                     \ { linearizeBoxVectorIndex(
                                           K.box, data[1], data[2], data[3]) } ]

\* dpPolymerSystem and dpPolymerFlags are passed advanced by iOffset
kernelSimulationScBFMPerformSpecies(D, K, iOffset, iMonomer) ==
    LET data == D.sys[iOffset + iMonomer]
        x0 == data[1]
        y0 == data[2]
        z0 == data[3]
        properties == D.flags[iOffset + iMonomer]
        direction == BitAnd(properties \div 4, 7)
        dx == DXTable_d[direction + 1]
        dy == DYTable_d[direction + 1]
        dz == DZTable_d[direction + 1]
    IN  IF BitAnd(properties, 1) = 0 THEN D
        ELSE IF checkFront(K.box, D.latTmp, x0, y0, z0, direction) THEN D
        ELSE [ D EXCEPT !.flags[iOffset + iMonomer] = BitOr(properties, 2),
                        !.latOut = (@ \cup { linearizeBoxVectorIndex(
                                               K.box, x0 + dx, y0 + dy, z0 + dz) })
                                     \ { linearizeBoxVectorIndex(K.box, x0, y0, z0) } ]

\* variant: the position is advanced whenever flag bit 0 is set
kernelSimulationScBFMZeroArraySpecies_MovesAccepted(D, K, iOffset, iMonomer) ==
    LET data == D.sys[iOffset + iMonomer]
        properties == D.flags[iOffset + iMonomer]
        direction == BitAnd(properties \div 4, 7)
        dx == DXTable_d[direction + 1]
        dy == DYTable_d[direction + 1]
        dz == DZTable_d[direction + 1]
    IN  IF BitAnd(properties, 3) = 0 THEN D
        ELSE [ D EXCEPT !.latTmp = @ \ { linearizeBoxVectorIndex(
                                           K.box, data[1] + dx, data[2] + dy,
                                           data[3] + dz) },
                        !.sys[iOffset + iMonomer] =
                            << data[1] + dx, data[2] + dy, data[3] + dz, data[4] >> ]

\* variant: the early return tests ( properties & 3 ) != 3
kernelSimulationScBFMZeroArraySpecies_OnlyMoved(D, K, iOffset, iMonomer) ==
    LET data == D.sys[iOffset + iMonomer]
        properties == D.flags[iOffset + iMonomer]
        direction == BitAnd(properties \div 4, 7)
        dx == DXTable_d[direction + 1]
        dy == DYTable_d[direction + 1]
        dz == DZTable_d[direction + 1]
    IN  IF BitAnd(properties, 3) # 3 THEN D
        ELSE [ D EXCEPT !.latTmp = @ \ { linearizeBoxVectorIndex(
                                           K.box, data[1] + dx, data[2] + dy,
                                           data[3] + dz) },
                        !.sys[iOffset + iMonomer] =
                            << data[1] + dx, data[2] + dy, data[3] + dz, data[4] >> ]

\* variant: a moved monomer is written back with an empty tag word
kernelSimulationScBFMZeroArraySpecies_DropsTag(D, K, iOffset, iMonomer) ==
    LET data == D.sys[iOffset + iMonomer]
        properties == D.flags[iOffset + iMonomer]
        direction == BitAnd(properties \div 4, 7)
        dx == DXTable_d[direction + 1]
        dy == DYTable_d[direction + 1]
        dz == DZTable_d[direction + 1]
        moved == IF BitAnd(properties, 3) = 3
                 THEN << data[1] + dx, data[2] + dy, data[3] + dz, 0 >>
                 ELSE data
    IN  IF BitAnd(properties, 3) = 0 THEN D
        ELSE [ D EXCEPT !.latTmp = @ \ { linearizeBoxVectorIndex(
                                           K.box, data[1] + dx, data[2] + dy, data[3] + dz) },
                        !.sys[iOffset + iMonomer] = moved ]

\* variant: the scratch cell is cleared and the position is left as it was
kernelSimulationScBFMZeroArraySpecies_KeepsPosition(D, K, iOffset, iMonomer) ==
    LET data == D.sys[iOffset + iMonomer]
        properties == D.flags[iOffset + iMonomer]
        direction == BitAnd(properties \div 4, 7)
    IN  IF BitAnd(properties, 3) = 0 THEN D
        ELSE [ D EXCEPT !.latTmp = @ \ { linearizeBoxVectorIndex(
                                           K.box, data[1] + DXTable_d[direction + 1],
                                           data[2] + DYTable_d[direction + 1],
                                           data[3] + DZTable_d[direction + 1]) } ]

kernelSimulationScBFMZeroArraySpecies(D, K, iOffset, iMonomer) ==
    LET data == D.sys[iOffset + iMonomer]
        x0 == data[1]
        y0 == data[2]
        z0 == data[3]
        properties == D.flags[iOffset + iMonomer]
        direction == BitAnd(properties \div 4, 7)
        dx == DXTable_d[direction + 1]
        dy == DYTable_d[direction + 1]
        dz == DZTable_d[direction + 1]
        moved == IF BitAnd(properties, 3) = 3
                 THEN << x0 + dx, y0 + dy, z0 + dz, data[4] >>
                 ELSE data
    IN  IF BitAnd(properties, 3) = 0 THEN D
        ELSE [ D EXCEPT !.latTmp = @ \ { linearizeBoxVectorIndex(
                                           K.box, x0 + dx, y0 + dy, z0 + dz) },
                        !.sys[iOffset + iMonomer] = moved ]

(***************************************************************************)
(* What one worker reads and writes: locations are <<array, index>>,        *)
(* writes are <<array, index, value>>.                                      *)
(***************************************************************************)
\* check kernel: own monomer, its neighbour slots and their monomers, the 3x3
\* face of the committed lattice (lines 389-429)
CheckSpeciesReads(D, K, iOffset, dpNeighbors, pitch, rSeed, iMonomer) ==
    LET data == D.sys[iOffset + iMonomer]
        slots == { dpNeighbors + (iNeighbor * pitch) + iMonomer :
                     iNeighbor \in 0..(BitAnd(data[4] \div 32, 7) - 1) }
    IN  { << "sys", iOffset + iMonomer >> }
          \cup { << "neighbors", k >> : k \in slots }
          \cup { << "sys", NeighborAt(K.neighbors, k) >> : k \in slots }
          \cup { << "latOut", c >> :
                   c \in checkFrontCells(K.box, data[1], data[2], data[3],
                                         Direction(iMonomer, rSeed)) }

\* check kernel: own flag, and the scratch cell of the destination (436-437)
CheckSpeciesWrites(D, K, iOffset, dpNeighbors, pitch, rSeed, iMonomer) ==
    LET data == D.sys[iOffset + iMonomer]
        direction == Direction(iMonomer, rSeed)
        after == kernelSimulationScBFMCheckSpecies(D, K, iOffset, dpNeighbors, pitch,
                                                   rSeed, iMonomer)
        properties == after.flags[iOffset + iMonomer]
    IN  { << "flags", iOffset + iMonomer, properties >> }
          \cup (IF BitAnd(properties, 1) = 0 THEN {}
                ELSE { << "latTmp",
                          linearizeBoxVectorIndex(K.box,
                              data[1] + DXTable_d[direction + 1],
                              data[2] + DYTable_d[direction + 1],
                              data[3] + DZTable_d[direction + 1]), 1 >> })

\* perform kernel: own monomer and flag, the 3x3 face of the scratch lattice
\* (lines 525-539)
PerformSpeciesReads(D, K, iOffset, iMonomer) ==
    LET data == D.sys[iOffset + iMonomer]
        properties == D.flags[iOffset + iMonomer]
    IN  { << "sys", iOffset + iMonomer >>, << "flags", iOffset + iMonomer >> }
          \cup (IF BitAnd(properties, 1) = 0 THEN {}
                ELSE { << "latTmp", c >> :
                         c \in checkFrontCells(K.box, data[1], data[2], data[3],
                                               BitAnd(properties \div 4, 7)) })

\* perform kernel: own flag, destination and source of the committed lattice
\* (lines 543-545)
PerformSpeciesWrites(D, K, iOffset, iMonomer) ==
    LET data == D.sys[iOffset + iMonomer]
        after == kernelSimulationScBFMPerformSpecies(D, K, iOffset, iMonomer)
        properties == after.flags[iOffset + iMonomer]
        direction == BitAnd(properties \div 4, 7)
    IN  IF after = D THEN {}
        ELSE { << "flags", iOffset + iMonomer, properties >>,
               << "latOut",
                  linearizeBoxVectorIndex(K.box,
                      data[1] + DXTable_d[direction + 1],
                      data[2] + DYTable_d[direction + 1],
                      data[3] + DZTable_d[direction + 1]), 1 >>,
               << "latOut",
                  linearizeBoxVectorIndex(K.box, data[1], data[2], data[3]), 0 >> }

\* zero kernel: own monomer and flag (lines 604-608)
ZeroArraySpeciesReads(D, K, iOffset, iMonomer) ==
    { << "sys", iOffset + iMonomer >>, << "flags", iOffset + iMonomer >> }

\* zero kernel: the scratch cell of the destination, own monomer (618-627)
ZeroArraySpeciesWrites(D, K, iOffset, iMonomer) ==
    LET data == D.sys[iOffset + iMonomer]
        properties == D.flags[iOffset + iMonomer]
        direction == BitAnd(properties \div 4, 7)
        after == kernelSimulationScBFMZeroArraySpecies(D, K, iOffset, iMonomer)
    IN  IF BitAnd(properties, 3) = 0 THEN {}
        ELSE { << "latTmp",
                  linearizeBoxVectorIndex(K.box,
                      data[1] + DXTable_d[direction + 1],
                      data[2] + DYTable_d[direction + 1],
                      data[3] + DZTable_d[direction + 1]), 0 >>,
               << "sys", iOffset + iMonomer, after.sys[iOffset + iMonomer] >> }

(***************************************************************************)
(* Inputs of the model                                                     *)
(***************************************************************************)
Seeds == { SeedTable[k] : k \in 1..NumSeeds }

\* configurations the loader stages: box, corner positions, setConnectivity
\* calls in order, and whether the build defines NONPERIODICITY
Scenarios ==
    { [ dims |-> << 8, 8, 8 >>,
        pos |-> << << 2, 2, 2 >>, << 5, 2, 2 >> >>,
        bonds |-> << << 0, 1 >>, << 1, 0 >> >>,
        nonper |-> FALSE ],
      [ dims |-> << 8, 4, 4 >>,
        pos |-> << << 1, 0, 0 >>, << 6, 0, 0 >> >>,
        bonds |-> << >>,
        nonper |-> FALSE ],
      [ dims |-> << 8, 4, 4 >>,
        pos |-> << << 8, 0, 0 >>, << 7, 2, 0 >>, << 6, 0, 0 >> >>,
        bonds |-> << << 0, 1 >>, << 1, 0 >>, << 1, 2 >>, << 2, 1 >> >>,
        nonper |-> FALSE ],
      [ dims |-> << 8, 4, 4 >>,
        pos |-> << << 0, 0, 0 >>, << 6, 0, 2 >> >>,
        bonds |-> << >>,
        nonper |-> TRUE ] }

\* what the never-initialised flag bytes may hold
UninitFlags == { 0, 7 }

\* setConnectivity( iMonomer1, iMonomer2 ) below the neighbour limit
setConnectivityOk(neigh, iMonomer1, iMonomer2) ==
    [ neigh EXCEPT ![iMonomer1] = Append(@, iMonomer2) ]

RECURSIVE StagedNeighbors(_, _, _)
StagedNeighbors(n, bonds, k) ==
    IF k = 0 THEN [ i \in 0..(n - 1) |-> << >> ]
    ELSE setConnectivityOk(StagedNeighbors(n, bonds, k - 1), bonds[k][1], bonds[k][2])

\* setMonomerCoordinates on the zero-filled mPolymerSystem
StagedPolymerSystem(pos) ==
    [ i \in 0..(Len(pos) - 1) |-> << pos[i + 1][1], pos[i + 1][2], pos[i + 1][3], 0 >> ]

(***************************************************************************)
(* State                                                                   *)
(***************************************************************************)
VARIABLES
    NONPERIODICITY,        \* the build's boundary mode
    nAllMonomers, mPolymerSystem, mNeighbors, mForbiddenBonds, mBox,
    mAttributeSystem,
    allocated,             \* the buffers that are not NULL
    mGroupIds, mnElementsInGroup, iSubGroupOffset, iToiNew, iNewToi,
    mNeighborsSorted, mNeighborsSortedInfo,
    mPolymerSystemSorted, mPolymerFlags, mLatticeOut, mLatticeTmp,
    dpForbiddenBonds, dcBox,
    pc,                    \* where the host is
    nMonteCarloSteps, iStep, iSubStep,
    queue,                 \* kernels launched and not yet completed
    nStepsBudget,          \* sweeps the caller may still ask for
    nSubStepsLaunched,     \* substeps launched by the current call
    nKernelsCompleted,     \* kernels completed since the current call began
    pre,                   \* device memory when the running substep began
    lastCall,              \* the caller's last staging or lifecycle call
    nCalls                 \* staging and lifecycle calls made so far

stagedVars == << NONPERIODICITY, nAllMonomers, mNeighbors, mForbiddenBonds, mBox,
                 mAttributeSystem >>
layoutVars == << allocated, mGroupIds, mnElementsInGroup, iSubGroupOffset, iToiNew,
                 iNewToi, mNeighborsSorted, mNeighborsSortedInfo, dpForbiddenBonds,
                 dcBox >>
deviceVars == << mPolymerSystemSorted, mPolymerFlags, mLatticeOut, mLatticeTmp >>
loopVars == << nMonteCarloSteps, iStep, iSubStep >>
callVars == << lastCall, nCalls >>
vars == << stagedVars, layoutVars, deviceVars, loopVars, mPolymerSystem, pc, queue,
           nStepsBudget, nSubStepsLaunched, nKernelsCompleted, pre, callVars >>

NoSnapshot == [ valid |-> FALSE ]

\* the record of a call: what was called with which arguments, whether it
\* threw, and the call before it
Called(op, args, threw) ==
    [ op |-> op, args |-> args, threw |-> threw,
      after |-> [ op |-> lastCall.op, threw |-> lastCall.threw ] ]

\* what initialize and runSimulationOnGPU have not touched yet
NothingInitialized ==
    /\ mGroupIds = << >>
    /\ mnElementsInGroup = << >>
    /\ iSubGroupOffset = << >>
    /\ iToiNew = << >>
    /\ iNewToi = << >>
    /\ mNeighborsSorted = << >>
    /\ mNeighborsSortedInfo = << >>
    /\ mPolymerSystemSorted = << >>
    /\ mPolymerFlags = << >>
    /\ mLatticeOut = {}
    /\ mLatticeTmp = {}
    /\ dpForbiddenBonds = {}
    /\ dcBox = LatticeSizeMembers(0, 0, 0)
    /\ pc = "configured"
    /\ nMonteCarloSteps = 0
    /\ iStep = 0
    /\ iSubStep = 0
    /\ queue = << >>
    /\ nStepsBudget = MaxSteps
    /\ nSubStepsLaunched = 0
    /\ nKernelsCompleted = 0
    /\ pre = NoSnapshot
    /\ nCalls = 0

\* the engine as the loader's staging calls for configuration sc left it
StagedWith(sc, forbidden) ==
    /\ NONPERIODICITY = sc.nonper
    /\ nAllMonomers = Len(sc.pos)
    /\ mPolymerSystem = StagedPolymerSystem(sc.pos)
    /\ mNeighbors = StagedNeighbors(Len(sc.pos), sc.bonds, Len(sc.bonds))
    /\ mForbiddenBonds = forbidden
    /\ mBox = LatticeSizeMembers(sc.dims[1], sc.dims[2], sc.dims[3])
    /\ mAttributeSystem = [ i \in 0..(Len(sc.pos) - 1) |-> 0 ]
    /\ allocated = { "mLattice", "mAttributeSystem" }
    /\ lastCall = [ op |-> "loader", args |-> << >>, threw |-> FALSE,
                    after |-> [ op |-> "constructor", threw |-> FALSE ] ]
    /\ NothingInitialized

\* the loader has delivered the standard bond set
Staged(sc) == StagedWith(sc, StandardForbiddenBonds)

Init == \E sc \in Scenarios : Staged(sc)

(***************************************************************************)
(* initialize                                                              *)
(***************************************************************************)
nAllowedBonds(forbidden) == 512 - Cardinality(forbidden \cap (0..511))

\* variant: only a table with too few allowed entries is refused
WrongBondSet_TooFewOnly == nAllowedBonds(mForbiddenBonds) < nRequiredAllowedBonds

\* line 733
WrongBondSet == nAllowedBonds(mForbiddenBonds) # nRequiredAllowedBonds

\* variant: the test is an assert that the release build compiles out
AlreadyInitialized_Never == FALSE

\* line 716
AlreadyInitialized == "mLatticeOut" \in allocated \/ "mLatticeTmp" \in allocated

\* the host is between two calls and the caller has calls left
CallerReady == pc \in { "configured", "initialized" } /\ nCalls < MaxCalls

\* the calls of initialize the model follows: at least one monomer, a box
\* with cells, and neighbour lists within the array that name monomers
initializeInputs ==
    /\ nAllMonomers > 0
    /\ mBox.X * mBox.Y * mBox.Z > 0
    /\ \A i \in 0..(nAllMonomers - 1) :
        /\ Len(mNeighbors[i]) <= MAX_CONNECTIVITY
        /\ \A s \in 1..Len(mNeighbors[i]) : mNeighbors[i][s] \in 0..(nAllMonomers - 1)

\* a call of initialize that returns, the colorer having returned groupIds
initializeWith(groupIds) ==
    /\ CallerReady
    /\ initializeInputs
    /\ ~ AlreadyInitialized
    /\ ~ WrongBondSet
    /\ lastCall' = Called("initialize", << >>, FALSE)
    /\ nCalls' = nCalls + 1
    /\ LET nInGroup == CountElementsInGroup(groupIds, nAllMonomers)
           nPadded == nMonomersPaddedOf(nAllMonomers, nInGroup)
           offsets == SubGroupOffsets(nInGroup)
           toNew == SortIndex(groupIds, offsets, nAllMonomers)
           newToOld == InverseSortIndex(iNewToi, toNew, nAllMonomers, nPadded)
           info == NewMatrices(mNeighborsSortedInfo, nInGroup)
           tagged == TagWithNeighbors(mPolymerSystem, mNeighbors, nAllMonomers)
       IN  /\ dpForbiddenBonds' = mForbiddenBonds
           /\ mGroupIds' = groupIds
           /\ mnElementsInGroup' = nInGroup
           /\ iSubGroupOffset' = offsets
           /\ iToiNew' = toNew
           /\ iNewToi' = newToOld
           /\ mNeighborsSortedInfo' = info
           /\ mNeighborsSorted' = NeighborsSorted(mNeighbors, nAllMonomers, nPadded,
                                                  toNew, newToOld, offsets, info)
           /\ mPolymerSystem' = tagged
           /\ mPolymerSystemSorted' =
                  SortPolymerSystem(tagged, toNew, nAllMonomers, nPadded,
                                    << 0, 0, 0, 0 >>)
           /\ \E g \in UninitFlags : mPolymerFlags' = [ j \in 0..(nPadded - 1) |-> g ]
           /\ dcBox' = mBox
           /\ mLatticeOut' = PrimedLattice(mBox, tagged, nAllMonomers)
           /\ mLatticeTmp' = {}
           /\ allocated' = allocated \cup { "mPolymerFlags", "mPolymerSystemSorted",
                                            "mNeighborsSorted", "mLatticeOut",
                                            "mLatticeTmp" }
    /\ pc' = "initialized"
    /\ UNCHANGED << stagedVars, loopVars, queue, nStepsBudget, nSubStepsLaunched,
                    nKernelsCompleted, pre >>

\* a call of initialize that returns
initialize == initializeWith(graphColoring(mNeighbors, nAllMonomers))

(***************************************************************************)
(* runSimulationOnGPU                                                      *)
(***************************************************************************)
DeviceMemory ==
    [ sys |-> mPolymerSystemSorted, flags |-> mPolymerFlags,
      latOut |-> mLatticeOut, latTmp |-> mLatticeTmp ]

KernelConstants ==
    [ box |-> dcBox, forbidden |-> dpForbiddenBonds, neighbors |-> mNeighborsSorted,
      nonper |-> NONPERIODICITY ]

Workers(iSpecies) == 0..(mnElementsInGroup[iSpecies + 1] - 1)

\* variant: the perform kernel is launched on a stream of its own
SubStepLaunches_OwnStream(iSpecies, seed) ==
    << [ kernel |-> "Check", iSpecies |-> iSpecies, seed |-> seed,
         stream |-> mStream, todo |-> Workers(iSpecies) ],
       [ kernel |-> "Perform", iSpecies |-> iSpecies, seed |-> seed,
         stream |-> mStream + 1, todo |-> Workers(iSpecies) ],
       [ kernel |-> "Zero", iSpecies |-> iSpecies, seed |-> seed,
         stream |-> mStream, todo |-> Workers(iSpecies) ] >>

\* the three launches of one substep (lines 1397-1453), all on mStream
SubStepLaunches(iSpecies, seed) ==
    << [ kernel |-> "Check", iSpecies |-> iSpecies, seed |-> seed,
         stream |-> mStream, todo |-> Workers(iSpecies) ],
       [ kernel |-> "Perform", iSpecies |-> iSpecies, seed |-> seed,
         stream |-> mStream, todo |-> Workers(iSpecies) ],
       [ kernel |-> "Zero", iSpecies |-> iSpecies, seed |-> seed,
         stream |-> mStream, todo |-> Workers(iSpecies) ] >>

\* variant: the loop over the Monte-Carlo steps counts from 0
runSimulationOnGPU_begin_FromZero ==
    /\ pc = "initialized"
    /\ \E n \in (0 - 1)..nStepsBudget :
        /\ nMonteCarloSteps' = n
        /\ nStepsBudget' = IF n > 0 THEN nStepsBudget - n ELSE nStepsBudget
    /\ iStep' = 0
    /\ iSubStep' = 0
    /\ nSubStepsLaunched' = 0
    /\ nKernelsCompleted' = 0
    /\ pc' = "running"
    /\ UNCHANGED << stagedVars, callVars, layoutVars, deviceVars, mPolymerSystem, queue, pre >>

\* the call enters the loop over the Monte-Carlo steps (line 1380)
runSimulationOnGPU_begin ==
    /\ pc = "initialized"
    /\ \E n \in (0 - 1)..nStepsBudget :
        /\ nMonteCarloSteps' = n
        /\ nStepsBudget' = IF n > 0 THEN nStepsBudget - n ELSE nStepsBudget
    /\ iStep' = 1
    /\ iSubStep' = 0
    /\ nSubStepsLaunched' = 0
    /\ nKernelsCompleted' = 0
    /\ pc' = "running"
    /\ UNCHANGED << stagedVars, callVars, layoutVars, deviceVars, mPolymerSystem, queue, pre >>

\* variant: the inner loop runs once per monomer
nSubStepsPerStep_PerMonomer == nAllMonomers

\* the bound of the inner loop (line 1385)
nSubStepsPerStep == Len(mnElementsInGroup)

\* one pass of the inner loop (lines 1385-1472): draw species and seed, launch
runSimulationOnGPU_substep ==
    /\ pc = "running"
    /\ iStep <= nMonteCarloSteps
    /\ iSubStep < nSubStepsPerStep
    /\ Len(queue) + 3 <= MaxQueue
    /\ \E iSpecies \in 0..(Len(mnElementsInGroup) - 1), seed \in Seeds :
        queue' = queue \o SubStepLaunches(iSpecies, seed)
    /\ IF iSubStep + 1 < nSubStepsPerStep
       THEN /\ iSubStep' = iSubStep + 1
            /\ iStep' = iStep
       ELSE /\ iSubStep' = 0
            /\ iStep' = iStep + 1
    /\ nSubStepsLaunched' = nSubStepsLaunched + 1
    /\ UNCHANGED << stagedVars, callVars, layoutVars, deviceVars, mPolymerSystem, pc,
                    nMonteCarloSteps, nStepsBudget, nKernelsCompleted, pre >>

\* variant: the copy back does not go through iToiNew
Untangle_Unpermuted(sorted, toNew, n) == [ i \in 0..(n - 1) |-> sorted[i] ]

\* lines 1558-1568: the sorted array back in original order
Untangle(sorted, toNew, n) == [ i \in 0..(n - 1) |-> sorted[toNew[i]] ]

\* after the loop: wait for the stream, copy the positions back (lines 1543-1570)
runSimulationOnGPU_end ==
    /\ pc = "running"
    /\ iStep > nMonteCarloSteps
    /\ queue = << >>
    /\ mPolymerSystem' = Untangle(mPolymerSystemSorted, iToiNew, nAllMonomers)
    /\ pc' = "initialized"
    /\ UNCHANGED << stagedVars, callVars, layoutVars, deviceVars, loopVars, queue, nStepsBudget,
                    nSubStepsLaunched, nKernelsCompleted, pre >>

(***************************************************************************)
(* The device: a launched kernel runs once every earlier launch of its     *)
(* stream has completed; its workers run in any order.                     *)
(***************************************************************************)
Runnable(i) == \A j \in 1..(i - 1) : queue[j].stream # queue[i].stream

RemoveAt(q, i) == [ j \in 1..(Len(q) - 1) |-> IF j < i THEN q[j] ELSE q[j + 1] ]

\* worker iMonomer of launch i has run
QueueAfter(i, iMonomer) ==
    IF queue[i].todo = { iMonomer }
    THEN RemoveAt(queue, i)
    ELSE [ queue EXCEPT ![i].todo = @ \ { iMonomer } ]

Completed(i, iMonomer) == IF queue[i].todo = { iMonomer } THEN 1 ELSE 0

SetDeviceMemory(D) ==
    /\ mPolymerSystemSorted' = D.sys
    /\ mPolymerFlags' = D.flags
    /\ mLatticeOut' = D.latOut
    /\ mLatticeTmp' = D.latTmp

CheckWorker ==
    \E i \in 1..Len(queue) :
        /\ Runnable(i)
        /\ queue[i].kernel = "Check"
        /\ \E iMonomer \in queue[i].todo :
            /\ SetDeviceMemory(kernelSimulationScBFMCheckSpecies(
                   DeviceMemory, KernelConstants,
                   iSubGroupOffset[queue[i].iSpecies + 1],
                   mNeighborsSortedInfo[queue[i].iSpecies + 1].offset,
                   mNeighborsSortedInfo[queue[i].iSpecies + 1].pitch,
                   queue[i].seed, iMonomer))
            /\ queue' = QueueAfter(i, iMonomer)
            /\ nKernelsCompleted' = nKernelsCompleted + Completed(i, iMonomer)
        /\ pre' = IF queue[i].todo = Workers(queue[i].iSpecies)
                  THEN [ valid |-> TRUE, D |-> DeviceMemory,
                         iSpecies |-> queue[i].iSpecies, seed |-> queue[i].seed ]
                  ELSE pre
        /\ UNCHANGED << stagedVars, callVars, layoutVars, loopVars, mPolymerSystem, pc,
                        nStepsBudget, nSubStepsLaunched >>

PerformWorker ==
    \E i \in 1..Len(queue) :
        /\ Runnable(i)
        /\ queue[i].kernel = "Perform"
        /\ \E iMonomer \in queue[i].todo :
            /\ SetDeviceMemory(kernelSimulationScBFMPerformSpecies(
                   DeviceMemory, KernelConstants,
                   iSubGroupOffset[queue[i].iSpecies + 1], iMonomer))
            /\ queue' = QueueAfter(i, iMonomer)
            /\ nKernelsCompleted' = nKernelsCompleted + Completed(i, iMonomer)
        /\ UNCHANGED << stagedVars, callVars, layoutVars, loopVars, mPolymerSystem, pc,
                        nStepsBudget, nSubStepsLaunched, pre >>

ZeroWorker ==
    \E i \in 1..Len(queue) :
        /\ Runnable(i)
        /\ queue[i].kernel = "Zero"
        /\ \E iMonomer \in queue[i].todo :
            /\ SetDeviceMemory(kernelSimulationScBFMZeroArraySpecies(
                   DeviceMemory, KernelConstants,
                   iSubGroupOffset[queue[i].iSpecies + 1], iMonomer))
            /\ queue' = QueueAfter(i, iMonomer)
            /\ nKernelsCompleted' = nKernelsCompleted + Completed(i, iMonomer)
        /\ UNCHANGED << stagedVars, callVars, layoutVars, loopVars, mPolymerSystem, pc,
                        nStepsBudget, nSubStepsLaunched, pre >>

Next ==
    \/ initialize
    \/ runSimulationOnGPU_begin
    \/ runSimulationOnGPU_substep
    \/ runSimulationOnGPU_end
    \/ CheckWorker
    \/ PerformWorker
    \/ ZeroWorker

Spec == Init /\ [][Next]_vars

\* a call that has entered the loop keeps running: the host thread issues its
\* next launch or returns, the device runs the workers of launched kernels
Running ==
    \/ runSimulationOnGPU_substep
    \/ runSimulationOnGPU_end
    \/ CheckWorker
    \/ PerformWorker
    \/ ZeroWorker

FairSpec == Spec /\ WF_vars(Running)

(***************************************************************************)
(* The staging and lifecycle interface.  Every call is one step: it        *)
(* returns or throws, and lastCall records which.  A release build that    *)
(* works through a NULL pointer or outside a vector ends the process.      *)
(***************************************************************************)
sortedVars == << mGroupIds, mnElementsInGroup, iSubGroupOffset, iToiNew, iNewToi,
                 mNeighborsSorted, mNeighborsSortedInfo, dpForbiddenBonds, dcBox >>
runVars == << loopVars, queue, nStepsBudget, nSubStepsLaunched, nKernelsCompleted,
              pre >>

\* the members as the constructor sets them (lines 642-649)
ConstructedBox ==
    [ X |-> 0, Y |-> 0, Z |-> 0, XM1 |-> 0, YM1 |-> 0, ZM1 |-> 0,
      XLog2 |-> 0, XYLog2 |-> 0 ]

\* what the table mForbiddenBonds, which the constructor does not fill, may hold
UninitBondTables == { {}, 0..511 }

\* what an entry of the freshly allocated mAttributeSystem may hold
UninitAttributes == { 0, 9 }

\* the engine right after construction (lines 631-664)
Constructed ==
    /\ NONPERIODICITY \in BOOLEAN
    /\ nAllMonomers = 0
    /\ mPolymerSystem = << >>
    /\ mNeighbors = << >>
    /\ mForbiddenBonds \in UninitBondTables
    /\ mBox = ConstructedBox
    /\ mAttributeSystem = << >>
    /\ allocated = {}
    /\ lastCall = [ op |-> "constructor", args |-> << >>, threw |-> FALSE,
                    after |-> [ op |-> "none", threw |-> FALSE ] ]
    /\ NothingInitialized

\* a staged star: monomer 0 bonded to seven others
HubScenario ==
    [ dims |-> << 8, 8, 8 >>,
      pos |-> << << 2, 2, 2 >>, << 4, 2, 2 >>, << 0, 2, 2 >>, << 2, 4, 2 >>,
                 << 2, 0, 2 >>, << 2, 2, 4 >>, << 2, 2, 0 >>, << 4, 4, 3 >> >>,
      bonds |-> << << 0, 1 >>, << 1, 0 >>, << 0, 2 >>, << 2, 0 >>, << 0, 3 >>,
                   << 3, 0 >>, << 0, 4 >>, << 4, 0 >>, << 0, 5 >>, << 5, 0 >>,
                   << 0, 6 >>, << 6, 0 >>, << 0, 7 >>, << 7, 0 >> >>,
      nonper |-> FALSE ]

\* a staged chain whose loader has marked one vector too many as forbidden
ShortBondSetScenario ==
    [ dims |-> << 4, 4, 4 >>,
      pos |-> << << 0, 0, 0 >>, << 2, 0, 0 >>, << 2, 2, 0 >> >>,
      bonds |-> << << 0, 1 >>, << 1, 0 >>, << 1, 2 >>, << 2, 1 >> >>,
      nonper |-> FALSE ]

\* bond vectors the caller passes to copyBondSet
StagedBondVectors == { << 2, 0, 0 >> }

ShortBondSet ==
    StandardForbiddenBonds
      \cup { linearizeBondVectorIndex(v[1], v[2], v[3]) : v \in StagedBondVectors }

\* two monomers at bond distance that the loader has not bonded
LoosePairScenario ==
    [ dims |-> << 4, 4, 4 >>,
      pos |-> << << 0, 0, 0 >>, << 2, 0, 0 >> >>,
      bonds |-> << >>,
      nonper |-> FALSE ]

\* the members after initialize and then cleanup have returned on the staged
\* configuration sc: cleanup frees the buffers and keeps the vectors
RecycledMembers(sc) ==
    LET n == Len(sc.pos)
        neigh == StagedNeighbors(n, sc.bonds, Len(sc.bonds))
        groupIds == graphColoring(neigh, n)
        nInGroup == CountElementsInGroup(groupIds, n)
        offsets == SubGroupOffsets(nInGroup)
        toNew == SortIndex(groupIds, offsets, n)
    IN  /\ NONPERIODICITY = sc.nonper
        /\ nAllMonomers = n
        /\ mPolymerSystem = TagWithNeighbors(StagedPolymerSystem(sc.pos), neigh, n)
        /\ mNeighbors = neigh
        /\ mForbiddenBonds = StandardForbiddenBonds
        /\ mBox = LatticeSizeMembers(sc.dims[1], sc.dims[2], sc.dims[3])
        /\ mAttributeSystem = << >>
        /\ allocated = {}
        /\ mGroupIds = groupIds
        /\ mnElementsInGroup = nInGroup
        /\ iSubGroupOffset = offsets
        /\ iToiNew = toNew
        /\ iNewToi = InverseSortIndex(<< >>, toNew, n, nMonomersPaddedOf(n, nInGroup))
        /\ mNeighborsSortedInfo = NewMatrices(<< >>, nInGroup)
        /\ mNeighborsSorted = << >>
        /\ mPolymerSystemSorted = << >>
        /\ mPolymerFlags = << >>
        /\ mLatticeOut = {}
        /\ mLatticeTmp = {}
        /\ dpForbiddenBonds = StandardForbiddenBonds
        /\ dcBox = LatticeSizeMembers(sc.dims[1], sc.dims[2], sc.dims[3])
        /\ pc = "configured"
        /\ nMonteCarloSteps = 0
        /\ iStep = 0
        /\ iSubStep = 0
        /\ queue = << >>
        /\ nStepsBudget = MaxSteps
        /\ nSubStepsLaunched = 0
        /\ nKernelsCompleted = 0
        /\ pre = NoSnapshot

\* an engine whose last lifecycle ended with cleanup
Recycled(sc) ==
    /\ RecycledMembers(sc)
    /\ lastCall = [ op |-> "cleanup", args |-> << >>, threw |-> FALSE,
                    after |-> [ op |-> "initialize", threw |-> FALSE ] ]
    /\ nCalls = 0

\* the caller starts with a fresh engine, with one a loader has staged, or
\* with one it has initialized and cleaned up before
LifecycleInit ==
    \/ Constructed
    \/ \E sc \in Scenarios \cup { HubScenario } : Staged(sc)
    \/ StagedWith(ShortBondSetScenario, ShortBondSet)
    \/ Recycled(LoosePairScenario)

\* arguments the caller passes
BoxSizes == { << 4, 4, 4 >>, << 3, 4, 4 >>, << 4, 3, 4 >>, << 4, 4, 3 >>,
              << 128 * 256, 4, 4 >> }
MonomerCounts == { 2 }
StagedIndices == { 0 }
StagedPositions == { << 1, 1, 1 >> }
StagedAttributes == { 2 }
StagedBonds == { << 0, 1 >>, << 1, 0 >> }

\* the call returns
Returns(op, args) ==
    /\ lastCall' = Called(op, args, FALSE)
    /\ nCalls' = nCalls + 1

\* the call throws without having changed a member
Throws(op, args) ==
    /\ lastCall' = Called(op, args, TRUE)
    /\ nCalls' = nCalls + 1
    /\ UNCHANGED << stagedVars, layoutVars, deviceVars, runVars, mPolymerSystem, pc >>

\* the call ends the process
Crashes(op, args) ==
    /\ lastCall' = Called(op, args, FALSE)
    /\ nCalls' = nCalls + 1
    /\ pc' = "crashed"
    /\ UNCHANGED << stagedVars, layoutVars, deviceVars, runVars, mPolymerSystem >>

\* largest value of the position type intCUDA
intCUDAMax == (128 * 256) - 1

\* inRange< intCUDA >( v ) for an unsigned v
inRange(v) == v <= intCUDAMax

\* lines 1158-1209
setLatticeSize ==
    /\ CallerReady
    /\ \E box \in BoxSizes :
        LET boxX == box[1]
            boxY == box[2]
            boxZ == box[3]
            members == LatticeSizeMembers(boxX, boxY, boxZ)
        IN  IF mBox.X = boxX /\ mBox.Y = boxY /\ mBox.Z = boxZ
            THEN /\ Returns("setLatticeSize", box)
                 /\ UNCHANGED << mBox, allocated >>
            ELSE IF ~ (inRange(boxX) /\ inRange(boxY) /\ inRange(boxZ))
            THEN /\ lastCall' = Called("setLatticeSize", box, TRUE)
                 /\ nCalls' = nCalls + 1
                 /\ UNCHANGED << mBox, allocated >>
            ELSE /\ mBox' = members
                 /\ nCalls' = nCalls + 1
                 /\ IF \/ members.X # Pow2(members.XLog2)
                       \/ members.X * boxY # Pow2(members.XYLog2)
                    THEN /\ lastCall' = Called("setLatticeSize", box, TRUE)
                         /\ UNCHANGED allocated
                    ELSE /\ lastCall' = Called("setLatticeSize", box, FALSE)
                         /\ allocated' = allocated \cup { "mLattice" }
    /\ UNCHANGED << NONPERIODICITY, nAllMonomers, mNeighbors, mForbiddenBonds,
                    mAttributeSystem, mPolymerSystem, sortedVars, deviceVars,
                    runVars, pc >>

\* lines 1036-1063
setNrOfAllMonomers ==
    /\ CallerReady
    /\ \E rnAllMonomers \in MonomerCounts :
        IF \/ nAllMonomers # 0
           \/ "mAttributeSystem" \in allocated
           \/ "mPolymerSystemSorted" \in allocated
           \/ "mNeighborsSorted" \in allocated
        THEN Throws("setNrOfAllMonomers", << rnAllMonomers >>)
        ELSE /\ Returns("setNrOfAllMonomers", << rnAllMonomers >>)
             /\ nAllMonomers' = rnAllMonomers
             /\ allocated' = allocated \cup { "mAttributeSystem" }
             /\ \E g \in UninitAttributes :
                 mAttributeSystem' = [ i \in 0..(rnAllMonomers - 1) |-> g ]
             /\ mPolymerSystem' =
                    [ i \in 0..(rnAllMonomers - 1) |->
                        IF i \in DOMAIN mPolymerSystem THEN mPolymerSystem[i]
                        ELSE << 0, 0, 0, 0 >> ]
             /\ mNeighbors' = [ i \in 0..(rnAllMonomers - 1) |-> << >> ]
             /\ UNCHANGED << NONPERIODICITY, mForbiddenBonds, mBox, sortedVars,
                             deviceVars, runVars, pc >>

\* lines 1105-1132; at() throws outside the vector
setMonomerCoordinates ==
    /\ CallerReady
    /\ \E i \in StagedIndices, p \in StagedPositions :
        IF i \notin DOMAIN mPolymerSystem
        THEN Throws("setMonomerCoordinates", << i >> \o p)
        ELSE /\ Returns("setMonomerCoordinates", << i >> \o p)
             /\ mPolymerSystem' =
                    [ mPolymerSystem EXCEPT ![i] = << p[1], p[2], p[3], @[4] >> ]
             /\ UNCHANGED << stagedVars, layoutVars, deviceVars, runVars, pc >>

\* lines 1092-1103; the tests exist in the debug build only
setAttribute ==
    /\ CallerReady
    /\ \E i \in StagedIndices, attribute \in StagedAttributes :
        IF "mAttributeSystem" \in allocated /\ i < nAllMonomers
        THEN /\ Returns("setAttribute", << i, attribute >>)
             /\ mAttributeSystem' = [ mAttributeSystem EXCEPT ![i] = attribute ]
             /\ UNCHANGED << NONPERIODICITY, nAllMonomers, mNeighbors,
                             mForbiddenBonds, mBox, mPolymerSystem, layoutVars,
                             deviceVars, runVars, pc >>
        ELSE \/ Throws("setAttribute", << i, attribute >>)
             \/ Crashes("setAttribute", << i, attribute >>)

\* the slot behind neighborIds[ MAX_CONNECTIVITY - 1 ], which is never written
NoNeighbor == 0 - 1

\* lines 1138-1156: the count is incremented before it is tested
setConnectivity ==
    /\ CallerReady
    /\ \E b \in StagedBonds :
        LET iMonomer1 == b[1]
            iMonomer2 == b[2]
        IN  IF iMonomer1 \notin DOMAIN mNeighbors
            THEN Crashes("setConnectivity", b)
            ELSE LET iNew == Len(mNeighbors[iMonomer1])
                 IN  /\ nCalls' = nCalls + 1
                     /\ IF iNew > MAX_CONNECTIVITY - 1
                        THEN /\ mNeighbors' = [ mNeighbors EXCEPT
                                                  ![iMonomer1] = Append(@, NoNeighbor) ]
                             /\ lastCall' = Called("setConnectivity", b, TRUE)
                        ELSE /\ mNeighbors' =
                                    setConnectivityOk(mNeighbors, iMonomer1, iMonomer2)
                             /\ lastCall' = Called("setConnectivity", b, FALSE)
                     /\ UNCHANGED << NONPERIODICITY, nAllMonomers, mForbiddenBonds,
                                     mBox, mAttributeSystem, mPolymerSystem,
                                     layoutVars, deviceVars, runVars, pc >>

\* lines 1030-1034
copyBondSet ==
    /\ CallerReady
    /\ \E v \in StagedBondVectors, bondForbidden \in BOOLEAN :
        /\ Returns("copyBondSet", v \o << IF bondForbidden THEN 1 ELSE 0 >>)
        /\ mForbiddenBonds' =
               IF bondForbidden
               THEN mForbiddenBonds \cup { linearizeBondVectorIndex(v[1], v[2], v[3]) }
               ELSE mForbiddenBonds \ { linearizeBondVectorIndex(v[1], v[2], v[3]) }
    /\ UNCHANGED << NONPERIODICITY, nAllMonomers, mNeighbors, mBox, mAttributeSystem,
                    mPolymerSystem, layoutVars, deviceVars, runVars, pc >>

\* arguments of setPeriodicity, 1 for true
PeriodicityFlags == { << x, y, z >> : x, y, z \in { 0, 1 } }

\* variant: the call is refused only when all three flags differ from the build
PeriodicityMismatch_AllDiffer(isPeriodicX, isPeriodicY, isPeriodicZ) ==
    IF NONPERIODICITY
    THEN isPeriodicX = 1 /\ isPeriodicY = 1 /\ isPeriodicZ = 1
    ELSE isPeriodicX = 0 /\ isPeriodicY = 0 /\ isPeriodicZ = 0

\* lines 1073-1077: the test the build selects
PeriodicityMismatch(isPeriodicX, isPeriodicY, isPeriodicZ) ==
    IF NONPERIODICITY
    THEN isPeriodicX = 1 \/ isPeriodicY = 1 \/ isPeriodicZ = 1
    ELSE isPeriodicX = 0 \/ isPeriodicY = 0 \/ isPeriodicZ = 0

\* lines 1065-1090
setPeriodicity ==
    /\ CallerReady
    /\ \E f \in PeriodicityFlags :
        IF PeriodicityMismatch(f[1], f[2], f[3])
        THEN Throws("setPeriodicity", f)
        ELSE /\ Returns("setPeriodicity", f)
             /\ UNCHANGED << stagedVars, layoutVars, deviceVars, runVars,
                             mPolymerSystem, pc >>

\* a call of initialize that throws: lines 716-724 and 733-740
initialize_throws ==
    /\ CallerReady
    /\ AlreadyInitialized \/ WrongBondSet
    /\ Throws("initialize", << >>)

\* lines 1585-1586: the neighbour count in the tag against the host's count
TagMismatch(i) == BitAnd(mPolymerSystem[i][4], 224) \div 32 # Len(mNeighbors[i])

\* lines 1580-1598 and destruct (lines 669-678)
cleanup ==
    /\ CallerReady
    /\ IF \E i \in 0..(nAllMonomers - 1) : TagMismatch(i)
       THEN Throws("cleanup", << >>)
       ELSE /\ Returns("cleanup", << >>)
            /\ allocated' = {}
            /\ mAttributeSystem' = << >>
            /\ mPolymerSystemSorted' = << >>
            /\ mPolymerFlags' = << >>
            /\ mNeighborsSorted' = << >>
            /\ mLatticeOut' = {}
            /\ mLatticeTmp' = {}
            /\ pc' = "configured"
            /\ UNCHANGED << NONPERIODICITY, nAllMonomers, mNeighbors, mForbiddenBonds,
                            mBox, mPolymerSystem, mGroupIds, mnElementsInGroup,
                            iSubGroupOffset, iToiNew, iNewToi, mNeighborsSortedInfo,
                            dpForbiddenBonds, dcBox, runVars >>

LifecycleNext ==
    \/ setLatticeSize
    \/ setNrOfAllMonomers
    \/ setMonomerCoordinates
    \/ setAttribute
    \/ setConnectivity
    \/ copyBondSet
    \/ setPeriodicity
    \/ initialize
    \/ initialize_throws
    \/ cleanup

LifecycleSpec == LifecycleInit /\ [][LifecycleNext]_vars

\* the colourings the colorer may return: neighbours differ, colours up to
\* MaxColor, not every colour below the largest one need have a member
ProperColorings ==
    { g \in [ 0..(nAllMonomers - 1) -> 0..MaxColor ] :
        \A i \in 0..(nAllMonomers - 1) :
            \A k \in 1..Len(mNeighbors[i]) : g[i] # g[mNeighbors[i][k]] }

\* a call of initialize that returns, with any colouring the colorer's
\* contract admits
initialize_coloured ==
    /\ CallerReady /\ ~ AlreadyInitialized
    /\ \E g \in ProperColorings : initializeWith(g)

\* the layout for every colouring of the staged configurations
LayoutInit == \E sc \in Scenarios : Staged(sc)

LayoutSpec == LayoutInit /\ [][initialize_coloured]_vars



\* initialize, sweeps and cleanup of one object
SweepNext == Next \/ cleanup

SweepSpec == Init /\ [][SweepNext]_vars

(***************************************************************************)
(* checkSystem with the "Check" log level active                           *)
(***************************************************************************)
\* variant: the cells of a cube are addressed without the masks
CubeCells_Unwrapped(b, sys, n) ==
    { (sys[i][1] + d[1]) + ((sys[i][2] + d[2]) * Pow2(b.XLog2))
        + ((sys[i][3] + d[3]) * Pow2(b.XYLog2)) :
        i \in 0..(n - 1), d \in {0, 1} \X {0, 1} \X {0, 1} }

\* lines 1255-1280: the cells of the zeroed mLattice that are set to 1
CubeCells(b, sys, n) ==
    { linearizeBoxVectorIndex(b, sys[i][1] + d[1], sys[i][2] + d[2], sys[i][3] + d[3]) :
        i \in 0..(n - 1), d \in {0, 1} \X {0, 1} \X {0, 1} }

\* lines 1286-1288
nOccupied(b, sys, n) ==
    Cardinality(CubeCells(b, sys, n) \cap (0..((b.X * b.Y * b.Z) - 1)))

\* lines 1308-1310: neighbor - particle
BondVector(sys, i, j) ==
    << sys[j][1] - sys[i][1], sys[j][2] - sys[i][2], sys[j][3] - sys[i][3] >>

\* variant: a bond too long along x is not an erroneous axis
BondRefused_FromYAxis(forbidden, v) ==
    \/ ~ ((0 - 3) <= v[2] /\ v[2] <= 3)
    \/ ~ ((0 - 3) <= v[3] /\ v[3] <= 3)
    \/ linearizeBondVectorIndex(v[1], v[2], v[3]) \in forbidden

\* lines 1312-1316: erroneousAxis >= 0 or the table entry is set
BondRefused(forbidden, v) ==
    \/ ~ ((0 - 3) <= v[1] /\ v[1] <= 3)
    \/ ~ ((0 - 3) <= v[2] /\ v[2] <= 3)
    \/ ~ ((0 - 3) <= v[3] /\ v[3] <= 3)
    \/ linearizeBondVectorIndex(v[1], v[2], v[3]) \in forbidden

\* lines 1235-1333: the error checkSystem raises, "none" if it returns
checkSystemError ==
    IF "mLattice" \notin allocated THEN "invalid_argument"
    ELSE IF nOccupied(mBox, mPolymerSystem, nAllMonomers) # nAllMonomers * 8
         THEN "occupation"
    ELSE IF \E i \in 0..(nAllMonomers - 1) : \E k \in 1..Len(mNeighbors[i]) :
               BondRefused(mForbiddenBonds, BondVector(mPolymerSystem, i, mNeighbors[i][k]))
         THEN "bond"
    ELSE "none"

\* a call of checkSystem; it takes no arguments, and the record of the call
\* keeps the error it raised in their place
checkSystem ==
    /\ CallerReady
    /\ lastCall' = Called("checkSystem", << checkSystemError >>, checkSystemError # "none")
    /\ nCalls' = nCalls + 1
    /\ UNCHANGED << stagedVars, layoutVars, deviceVars, runVars, mPolymerSystem, pc >>

\* configurations handed to the verifier: two cubes in a box of 8 x 4 x 4,
\* apart, touching, overlapping inside the box and across its edges, with
\* and without a bond between them
VerifierScenarios ==
    { [ dims |-> << 8, 4, 4 >>, pos |-> << p0, p1 >>, bonds |-> b, nonper |-> FALSE ] :
        p0 \in { << 0, 0, 0 >>, << 7, 0, 0 >> },
        p1 \in ((0 - 2)..7) \X { 0, 2, 3 } \X { 0, 1 },
        b \in { << >>, << << 0, 1 >> >>, << << 0, 1 >>, << 1, 0 >> >> } }

VerifierInit == Constructed \/ \E sc \in VerifierScenarios : Staged(sc)

VerifierSpec == VerifierInit /\ [][checkSystem]_vars


(***************************************************************************)
(* checkFront on its own                                                   *)
(***************************************************************************)
\* configurations for the face test: a box of 4 x 2 x 4, monomer 0 at an
\* origin inside, on and beyond the box edges, monomer 1 at any cell
FaceScenarios ==
    { [ dims |-> << 4, 2, 4 >>, pos |-> << p0, p1 >>, bonds |-> << >>, nonper |-> FALSE ] :
        p0 \in ((0 - 2)..5) \X { 0 - 1, 0, 1 } \X { 0 - 1, 0, 3, 4 },
        p1 \in (0..3) \X (0..1) \X (0..3) }

FaceInit == \E sc \in FaceScenarios : Staged(sc)

\* line 429: checkFront on the committed lattice at the position of monomer
\* 0, for a direction; the record of the call keeps the direction and the
\* value returned
checkFront_applied ==
    /\ CallerReady
    /\ pc = "initialized"
    /\ \E axis \in 0..5 :
          LET data == mPolymerSystemSorted[iToiNew[0]]
          IN  lastCall' = Called("checkFront",
                                 << axis, checkFront(dcBox, mLatticeOut, data[1], data[2],
                                                     data[3], axis) >>,
                                 FALSE)
    /\ nCalls' = nCalls + 1
    /\ UNCHANGED << stagedVars, layoutVars, deviceVars, runVars, mPolymerSystem, pc >>

FaceNext == initialize \/ checkFront_applied

FaceSpec == FaceInit /\ [][FaceNext]_vars

(***************************************************************************)
(* Vocabulary of the properties                                            *)
(***************************************************************************)
Initialized == pc # "configured"

Monomers == 0..(nAllMonomers - 1)

\* device position and tag of the monomer with original index i
SortedMonomer(i) == mPolymerSystemSorted[iToiNew[i]]

\* no kernel of a substep has started and not completed
AtSubStepBoundary ==
    /\ Initialized
    /\ \/ queue = << >>
       \/ /\ queue[1].kernel = "Check"
          /\ queue[1].todo = Workers(queue[1].iSpecies)

\* the substep recorded in pre has run all three kernels
SubStepComplete == pre.valid /\ AtSubStepBoundary

PreOffset == iSubGroupOffset[pre.iSpecies + 1]

\* what worker m of the recorded substep proposed, from the state before it
Proposal(m) ==
    LET data == pre.D.sys[PreOffset + m]
        d == DrawDirection(m, pre.seed)
    IN  [ x0 |-> data[1], y0 |-> data[2], z0 |-> data[3], d |-> d,
          nx |-> data[1] + DXTable_d[d + 1],
          ny |-> data[2] + DYTable_d[d + 1],
          nz |-> data[3] + DZTable_d[d + 1],
          k |-> BitAnd(data[4] \div 32, 7) ]

ProposalBondForbidden(m) ==
    LET p == Proposal(m)
    IN  BondForbidden(pre.D, KernelConstants,
                      mNeighborsSortedInfo[pre.iSpecies + 1].offset,
                      mNeighborsSortedInfo[pre.iSpecies + 1].pitch,
                      m, p.nx, p.ny, p.nz, p.k)

\* the 2x2x2 cubes with corners p and q share a cell of the periodic box
SharesCell(p, q) ==
    /\ \E a, c \in {0, 1} : (p[1] + a) % mBox.X = (q[1] + c) % mBox.X
    /\ \E a, c \in {0, 1} : (p[2] + a) % mBox.Y = (q[2] + c) % mBox.Y
    /\ \E a, c \in {0, 1} : (p[3] + a) % mBox.Z = (q[3] + c) % mBox.Z

(***************************************************************************)
(* C1  Bond validity                                                       *)
(***************************************************************************)
\* C1: once initialized, and so after every substep, every stored bond (i,j)
\* has pos(j)-pos(i) with all three components in [-3,3] and an index the
\* bond table does not forbid.
C1_BondValidity ==
    Initialized =>
        \A i \in Monomers : \A s \in 1..Len(mNeighbors[i]) :
            LET a == SortedMonomer(i)
                b == SortedMonomer(mNeighbors[i][s])
                dx == b[1] - a[1]
                dy == b[2] - a[2]
                dz == b[3] - a[3]
            IN  /\ { dx, dy, dz } \subseteq (0 - 3)..3
                /\ linearizeBondVectorIndex(dx, dy, dz) \notin mForbiddenBonds

\* a completed substep in which a worker proposed a step to a forbidden bond
\* and stayed where it was
C1_ForbiddenBondRefused ==
    /\ SubStepComplete
    /\ \E m \in Workers(pre.iSpecies) :
        /\ ProposalBondForbidden(m)
        /\ mPolymerSystemSorted[PreOffset + m] = pre.D.sys[PreOffset + m]
        /\ mPolymerFlags[PreOffset + m] = 0

(***************************************************************************)
(* C2  Excluded volume                                                     *)
(***************************************************************************)
\* C2: once initialized, and so after every substep, no two monomers' cubes
\* share a lattice cell, coordinates taken modulo the box.
C2_ExcludedVolume ==
    Initialized =>
        \A i, j \in Monomers :
            i # j => ~ SharesCell(SortedMonomer(i), SortedMonomer(j))

\* a completed substep in which a worker's destination cube straddled the box
\* edge, met a monomer on the other side, and the worker stayed where it was
C2_BlockedAcrossWrap ==
    /\ SubStepComplete
    /\ \E m \in Workers(pre.iSpecies) :
        LET p == Proposal(m)
        IN  /\ ~ ProposalBondForbidden(m)
            /\ (p.nx + 1 >= mBox.X \/ p.nx < 0)
            /\ checkFront(dcBox, pre.D.latOut, p.x0, p.y0, p.z0, p.d)
            /\ \E j \in Monomers :
                /\ iToiNew[j] # PreOffset + m
                /\ SharesCell(<< p.nx, p.ny, p.nz >>, pre.D.sys[iToiNew[j]])
            /\ mPolymerSystemSorted[PreOffset + m] = pre.D.sys[PreOffset + m]

(***************************************************************************)
(* C3  Scratch zero                                                        *)
(***************************************************************************)
\* C3: whenever no substep is in progress (after initialize and after the
\* zero kernel of every substep) the scratch lattice is all-zero.
C3_ScratchZero == AtSubStepBoundary => mLatticeTmp = {}

\* a completed substep with a monomer accepted by the check kernel and
\* rejected by the perform kernel
C3_AcceptedThenRejected ==
    /\ SubStepComplete
    /\ mLatticeTmp = {}
    /\ \E m \in Workers(pre.iSpecies) : BitAnd(mPolymerFlags[PreOffset + m], 3) = 1

(***************************************************************************)
(* The substep run one worker after the other, in increasing index order   *)
(***************************************************************************)
RunWorker(kernel, D, iSpecies, seed, m) ==
    CASE kernel = "Check" ->
            kernelSimulationScBFMCheckSpecies(
                D, KernelConstants, iSubGroupOffset[iSpecies + 1],
                mNeighborsSortedInfo[iSpecies + 1].offset,
                mNeighborsSortedInfo[iSpecies + 1].pitch, seed, m)
      [] kernel = "Perform" ->
            kernelSimulationScBFMPerformSpecies(
                D, KernelConstants, iSubGroupOffset[iSpecies + 1], m)
      [] kernel = "Zero" ->
            kernelSimulationScBFMZeroArraySpecies(
                D, KernelConstants, iSubGroupOffset[iSpecies + 1], m)

RECURSIVE RunInOrder(_, _, _, _, _)
RunInOrder(kernel, D, iSpecies, seed, S) ==
    IF S = {} THEN D
    ELSE RunWorker(kernel, RunInOrder(kernel, D, iSpecies, seed, S \ { Max(S) }),
                   iSpecies, seed, Max(S))

\* device memory when the given kernel of the recorded substep starts
PhaseStart(kernel) ==
    CASE kernel = "Check" -> pre.D
      [] kernel = "Perform" ->
            RunInOrder("Check", pre.D, pre.iSpecies, pre.seed, Workers(pre.iSpecies))
      [] kernel = "Zero" ->
            RunInOrder("Perform",
                RunInOrder("Check", pre.D, pre.iSpecies, pre.seed,
                           Workers(pre.iSpecies)),
                pre.iSpecies, pre.seed, Workers(pre.iSpecies))

SubStepResult ==
    RunInOrder("Zero", PhaseStart("Zero"), pre.iSpecies, pre.seed,
               Workers(pre.iSpecies))

\* the workers of the running kernel that have run, replayed in index order
InOrderState ==
    IF AtSubStepBoundary THEN SubStepResult
    ELSE RunInOrder(queue[1].kernel, PhaseStart(queue[1].kernel), pre.iSpecies,
                    pre.seed, Workers(queue[1].iSpecies) \ queue[1].todo)

WorkerReads(kernel, iSpecies, seed, m) ==
    CASE kernel = "Check" ->
            CheckSpeciesReads(DeviceMemory, KernelConstants,
                iSubGroupOffset[iSpecies + 1],
                mNeighborsSortedInfo[iSpecies + 1].offset,
                mNeighborsSortedInfo[iSpecies + 1].pitch, seed, m)
      [] kernel = "Perform" ->
            PerformSpeciesReads(DeviceMemory, KernelConstants,
                iSubGroupOffset[iSpecies + 1], m)
      [] kernel = "Zero" ->
            ZeroArraySpeciesReads(DeviceMemory, KernelConstants,
                iSubGroupOffset[iSpecies + 1], m)

WorkerWrites(kernel, iSpecies, seed, m) ==
    CASE kernel = "Check" ->
            CheckSpeciesWrites(DeviceMemory, KernelConstants,
                iSubGroupOffset[iSpecies + 1],
                mNeighborsSortedInfo[iSpecies + 1].offset,
                mNeighborsSortedInfo[iSpecies + 1].pitch, seed, m)
      [] kernel = "Perform" ->
            PerformSpeciesWrites(DeviceMemory, KernelConstants,
                iSubGroupOffset[iSpecies + 1], m)
      [] kernel = "Zero" ->
            ZeroArraySpeciesWrites(DeviceMemory, KernelConstants,
                iSubGroupOffset[iSpecies + 1], m)

\* among the workers of the head kernel still to run: nobody reads what another
\* writes, and two writes to one location store the same value
HazardFree ==
    queue # << >> =>
        LET h == queue[1]
        IN  \A a, b \in h.todo :
                a # b =>
                    /\ \A w \in WorkerWrites(h.kernel, h.iSpecies, h.seed, b) :
                          << w[1], w[2] >>
                              \notin WorkerReads(h.kernel, h.iSpecies, h.seed, a)
                    /\ \A w \in WorkerWrites(h.kernel, h.iSpecies, h.seed, a) :
                       \A v \in WorkerWrites(h.kernel, h.iSpecies, h.seed, b) :
                          (w[1] = v[1] /\ w[2] = v[2]) => w[3] = v[3]

(***************************************************************************)
(* C4  Scheduling independence                                             *)
(***************************************************************************)
\* C4: in every state of a substep, and so after it, flags, lattices and
\* positions are what the workers that have run so far produce when run in
\* index order from the state before the substep; no worker still to run
\* reads a location another one writes, and overlapping writes agree.
C4_SchedulingIndependence ==
    /\ (Initialized /\ pre.valid) => DeviceMemory = InOrderState
    /\ Initialized => HazardFree

\* the perform kernel of a species of two check-accepted workers in which the
\* worker with the larger index ran first
C4_LargerIndexFirst ==
    /\ Initialized
    /\ pre.valid
    /\ queue # << >>
    /\ queue[1].kernel = "Perform"
    /\ Workers(queue[1].iSpecies) = { 0, 1 }
    /\ queue[1].todo = { 0 }
    /\ \A m \in { 0, 1 } : BitAnd(mPolymerFlags[PreOffset + m], 1) = 1

(***************************************************************************)
(* C5  Tie-break                                                           *)
(***************************************************************************)
ProposalDestination(m) ==
    linearizeBoxVectorIndex(dcBox, Proposal(m).nx, Proposal(m).ny, Proposal(m).nz)

ProposalSource(m) ==
    linearizeBoxVectorIndex(dcBox, Proposal(m).x0, Proposal(m).y0, Proposal(m).z0)

ProposalFace(m) ==
    checkFrontCells(dcBox, Proposal(m).x0, Proposal(m).y0, Proposal(m).z0,
                    Proposal(m).d)

\* a and b were both accepted by the check kernel and each destination lies
\* in the other's tested face
MutualClash(a, b) ==
    /\ a # b
    /\ BitAnd(mPolymerFlags[PreOffset + a], 1) = 1
    /\ BitAnd(mPolymerFlags[PreOffset + b], 1) = 1
    /\ ProposalDestination(b) \in ProposalFace(a)
    /\ ProposalDestination(a) \in ProposalFace(b)

\* C5: after a substep, every check-accepted monomer that mutually clashes
\* with another one has flag bit 1 clear, its position from before the
\* substep, and its source and destination cells of the committed lattice as
\* before the substep.
C5_TieBreak ==
    SubStepComplete =>
        \A a, b \in Workers(pre.iSpecies) :
            MutualClash(a, b) =>
                /\ BitAnd(mPolymerFlags[PreOffset + a], 2) = 0
                /\ mPolymerSystemSorted[PreOffset + a] = pre.D.sys[PreOffset + a]
                /\ \A c \in { ProposalSource(a), ProposalDestination(a) } :
                      (c \in mLatticeOut) = (c \in pre.D.latOut)

\* a completed substep with a mutually clashing pair
C5_ClashingPair ==
    /\ SubStepComplete
    /\ \E a, b \in Workers(pre.iSpecies) : MutualClash(a, b)

(***************************************************************************)
(* C6  Phase ordering                                                      *)
(***************************************************************************)
\* launch b is the one the loop issues right after launch a
LaunchedNext(a, b) ==
    CASE a.kernel = "Check" ->
            b.kernel = "Perform" /\ b.iSpecies = a.iSpecies /\ b.seed = a.seed
      [] a.kernel = "Perform" ->
            b.kernel = "Zero" /\ b.iSpecies = a.iSpecies /\ b.seed = a.seed
      [] a.kernel = "Zero" -> b.kernel = "Check"

CellOf(p) == << p[1] % mBox.X, p[2] % mBox.Y, p[3] % mBox.Z >>

\* C7: once initialized, and so after every sweep, the host array holds one
\* position per monomer 0..N-1 and the N positions are pairwise distinct
\* lattice cells, on the device and in the host copy in original order.
C7_IdentityOfPopulation ==
    Initialized =>
        /\ DOMAIN mPolymerSystem = Monomers
        /\ Cardinality({ CellOf(mPolymerSystem[i]) : i \in Monomers }) = nAllMonomers
        /\ Cardinality({ CellOf(SortedMonomer(i)) : i \in Monomers }) = nAllMonomers

\* a call of at least one sweep has returned, a monomer moved in its last
\* substep, and the sorted order differs from the original order
C7_AfterSweep ==
    /\ pc = "initialized"
    /\ nMonteCarloSteps >= 1
    /\ nKernelsCompleted >= 3
    /\ \E i \in Monomers : iToiNew[i] # i
    /\ \E i \in Monomers : BitAnd(mPolymerFlags[iToiNew[i]], 3) = 3

(***************************************************************************)
(* C8  Coloring                                                            *)
(***************************************************************************)
ProperColoring ==
    \A i \in Monomers : \A s \in 1..Len(mNeighbors[i]) :
        mGroupIds[i] # mGroupIds[mNeighbors[i][s]]

\* C8: once initialized, and so after every sweep, the two ends of every
\* bond have different mGroupIds, and no step after initialize changes
\* mGroupIds.
C8_Coloring ==
    /\ [](Initialized => ProperColoring)
    /\ [][Initialized => mGroupIds' = mGroupIds]_vars

\* a call of at least one sweep has returned on a system with bonds
C8_BondedAfterSweep ==
    /\ pc = "initialized"
    /\ nMonteCarloSteps >= 1
    /\ nKernelsCompleted >= 3
    /\ \E i \in Monomers : Len(mNeighbors[i]) > 0

KernelOrder == << "Check", "Perform", "Zero" >>

SweepStructure ==
    /\ nKernelsCompleted + Len(queue) = 3 * nSubStepsLaunched
    /\ \A i \in 1..Len(queue) :
        /\ queue[i].kernel = KernelOrder[((nKernelsCompleted + i - 1) % 3) + 1]
        /\ queue[i].iSpecies \in 0..(Len(mnElementsInGroup) - 1)
        /\ queue[i].todo # {}
        /\ queue[i].todo \subseteq Workers(queue[i].iSpecies)
    /\ \A i \in 1..(Len(queue) - 1) :
        queue[i].kernel # "Zero" =>
            /\ queue[i + 1].iSpecies = queue[i].iSpecies
            /\ queue[i + 1].seed = queue[i].seed
    /\ pc = "running" =>
        nSubStepsLaunched = ((iStep - 1) * Len(mnElementsInGroup)) + iSubStep
    /\ pc = "initialized" =>
        /\ queue = << >>
        /\ nSubStepsLaunched =
               (IF nMonteCarloSteps > 0 THEN nMonteCarloSteps ELSE 0)
                 * Len(mnElementsInGroup)
        /\ nKernelsCompleted = 3 * nSubStepsLaunched

\* C10: the launches of a call come in triples check, perform, zero on one
\* drawn species in [0,C) with one seed; when the call has returned it has
\* launched exactly nSteps * C substeps (none for nSteps <= 0) and each of
\* their kernels has run once; every call that entered the loop returns.
C10_SweepStructureAndTermination ==
    /\ []SweepStructure
    /\ (pc = "running") ~> (pc = "initialized")

\* a call of at least one sweep on at least two species has returned
C10_SweepReturned ==
    /\ pc = "initialized"
    /\ nMonteCarloSteps >= 1
    /\ Len(mnElementsInGroup) >= 2
    /\ nSubStepsLaunched = nMonteCarloSteps * Len(mnElementsInGroup)
    /\ nKernelsCompleted = 3 * nSubStepsLaunched

(***************************************************************************)
(* C11  Running 0 sweeps                                                   *)
(***************************************************************************)
\* what getMonomerPositionInX/Y/Z return (lines 1134-1136)
HostPositions ==
    [ i \in DOMAIN mPolymerSystem |->
        << mPolymerSystem[i][1], mPolymerSystem[i][2], mPolymerSystem[i][3] >> ]

\* C11: every step of a call runSimulationOnGPU(0), from its entry to its
\* return, leaves the positions the getters return, the neighbour lists on
\* host and device, the committed lattice and the scratch lattice as they
\* were, and the only step after the entry is the return.
C11_ZeroSweepsNoOp ==
    [][ ((pc' = "running" /\ nMonteCarloSteps' = 0)
           \/ (pc = "running" /\ nMonteCarloSteps = 0)) =>
            /\ HostPositions' = HostPositions
            /\ mNeighbors' = mNeighbors
            /\ mNeighborsSorted' = mNeighborsSorted
            /\ mLatticeOut' = mLatticeOut
            /\ mLatticeTmp' = mLatticeTmp
            /\ pc = "running" => pc' = "initialized" ]_vars

\* a call of 0 sweeps has returned after an earlier call ran a sweep, on a
\* system whose sorted order differs from the original order
C11_ZeroSweepsAfterSweep ==
    /\ pc = "initialized"
    /\ iStep = 1
    /\ nMonteCarloSteps = 0
    /\ nStepsBudget < MaxSteps
    /\ \E i \in Monomers : iToiNew[i] # i

(***************************************************************************)
(* C12  Non-periodic boundary                                              *)
(***************************************************************************)
\* the position the worker m of the kernel at the head of the queue proposes
HeadProposal(m) ==
    LET data == mPolymerSystemSorted[iSubGroupOffset[queue[1].iSpecies + 1] + m]
        d == DrawDirection(m, queue[1].seed)
    IN  << data[1] + DXTable_d[d + 1], data[2] + DYTable_d[d + 1],
           data[3] + DZTable_d[d + 1] >>

\* a position with a coordinate outside [0, B-1)
OutsideBox(p) ==
    ~ /\ 0 <= p[1] /\ p[1] < mBox.X - 1
      /\ 0 <= p[2] /\ p[2] < mBox.Y - 1
      /\ 0 <= p[3] /\ p[3] < mBox.Z - 1

\* C12: in a non-periodic build, every kernel step of a worker whose proposed
\* position lies outside [0, B-1) on some axis leaves both lattices and the
\* worker's stored position as they were and its flags at 0; when the substep
\* is complete the monomer is where it was before the substep.
C12_NonPeriodicBoundary ==
    /\ [][ \A m \in (IF queue = << >> THEN {} ELSE queue[1].todo) :
             (NONPERIODICITY /\ queue' = QueueAfter(1, m)
                /\ OutsideBox(HeadProposal(m))) =>
                 LET k == iSubGroupOffset[queue[1].iSpecies + 1] + m
                 IN  /\ mLatticeOut' = mLatticeOut
                     /\ mLatticeTmp' = mLatticeTmp
                     /\ mPolymerSystemSorted'[k] = mPolymerSystemSorted[k]
                     /\ mPolymerFlags'[k] = 0 ]_vars
    /\ []((SubStepComplete /\ NONPERIODICITY) =>
            \A m \in Workers(pre.iSpecies) :
                OutsideBox(<< Proposal(m).nx, Proposal(m).ny, Proposal(m).nz >>) =>
                    /\ mPolymerSystemSorted[PreOffset + m] = pre.D.sys[PreOffset + m]
                    /\ mPolymerFlags[PreOffset + m] = 0)

\* a completed substep of a non-periodic build in which one worker proposed
\* the last index B-1 of the x axis and another a negative index, and both
\* stayed where they were
C12_RefusedAtBothEnds ==
    /\ SubStepComplete
    /\ NONPERIODICITY
    /\ \E a, b \in Workers(pre.iSpecies) :
        /\ Proposal(a).nx = mBox.X - 1
        /\ Proposal(b).nx < 0
        /\ \A m \in { a, b } :
            /\ mPolymerSystemSorted[PreOffset + m] = pre.D.sys[PreOffset + m]
            /\ mPolymerFlags[PreOffset + m] = 0

(***************************************************************************)
(* C13  Original-order results                                             *)
(***************************************************************************)
\* C13: between calls (after initialize and after every runSimulationOnGPU)
\* the getters return for every original index i the position stored at
\* sorted index iToiNew[i], and iToiNew maps the monomers one-to-one to
\* sorted indices with iNewToi as its inverse.
C13_OriginalOrderResults ==
    pc = "initialized" =>
        /\ DOMAIN HostPositions = Monomers
        /\ \A i \in Monomers :
            /\ HostPositions[i] = << SortedMonomer(i)[1], SortedMonomer(i)[2],
                                     SortedMonomer(i)[3] >>
            /\ iNewToi[iToiNew[i]] = i
        /\ \A i, j \in Monomers : i # j => iToiNew[i] # iToiNew[j]

\* a call has returned whose last substep moved a monomer that the sort put
\* at another index than its original one
C13_MovedMonomerReturned ==
    /\ pc = "initialized"
    /\ nMonteCarloSteps >= 1
    /\ nKernelsCompleted >= 3
    /\ \E i \in Monomers :
        /\ iToiNew[i] # i
        /\ BitAnd(mPolymerFlags[iToiNew[i]], 3) = 3
        /\ HostPositions[i] = << SortedMonomer(i)[1], SortedMonomer(i)[2],
                                 SortedMonomer(i)[3] >>


(***************************************************************************)
(* Staging and lifecycle calls                                             *)
(***************************************************************************)
\* the step is one call of op
CallOf(op) == nCalls' = nCalls + 1 /\ lastCall'.op = op

IsPowerOfTwo(n) == \E k \in 0..30 : n = Pow2(k)

\* C14: setLatticeSize throws exactly when one of its three arguments is no
\* power of two or does not fit the position type; every triple of powers
\* of two that fit is accepted.
C14_RejectsNonPowerOfTwo ==
    lastCall.op = "setLatticeSize" =>
        ( lastCall.threw <=>
            ~ \A k \in 1..3 : /\ IsPowerOfTwo(lastCall.args[k])
                              /\ inRange(lastCall.args[k]) )

\* C15: a setLatticeSize call that throws leaves the box members and the
\* working lattice as they were, and the same call made again right after
\* it throws again.
C15_RejectedLeavesStateUnchanged ==
    [][ CallOf("setLatticeSize") =>
          /\ lastCall'.threw => ( mBox' = mBox /\ allocated' = allocated )
          /\ ( /\ lastCall.op = "setLatticeSize"
               /\ lastCall.threw
               /\ lastCall'.args = lastCall.args ) => lastCall'.threw ]_vars

\* C16: a setConnectivity call on a monomer that has MAX_CONNECTIVITY
\* neighbours throws and leaves the neighbour lists as they were, and after
\* every setConnectivity call no monomer has more than MAX_CONNECTIVITY
\* neighbours.
C16_NeighborOverflow ==
    [][ ( CallOf("setConnectivity") /\ pc' # "crashed" ) =>
          /\ Len(mNeighbors[lastCall'.args[1]]) >= MAX_CONNECTIVITY =>
                ( lastCall'.threw /\ mNeighbors' = mNeighbors )
          /\ \A i \in DOMAIN mNeighbors' :
                Len(mNeighbors'[i]) <= MAX_CONNECTIVITY ]_vars


\* every member of the engine, without the record of the calls
EngineState ==
    << stagedVars, layoutVars, deviceVars, runVars, mPolymerSystem, pc >>

\* C17: a call of initialize on an engine whose lattices of the first
\* initialize are still allocated throws, and lattices, sorted arrays, index
\* maps and species counts are after it what they were before it.
C17_SecondInitializeRejected ==
    [][ ( CallOf("initialize") /\ "mLatticeOut" \in allocated ) =>
          ( lastCall'.threw /\ EngineState' = EngineState ) ]_vars

\* a second initialize has been called right after a first one that returned
C17_SecondInitializeCalled ==
    /\ lastCall.op = "initialize"
    /\ lastCall.threw
    /\ lastCall.after = [ op |-> "initialize", threw |-> FALSE ]
    /\ "mLatticeOut" \in allocated
    /\ Len(mnElementsInGroup) >= 2
    /\ pc = "initialized"


StagingCalls ==
    { "setMonomerCoordinates", "setAttribute", "setConnectivity", "copyBondSet",
      "setLatticeSize", "setNrOfAllMonomers" }

\* C18: every staging call made between initialize and cleanup throws and
\* leaves every member of the engine as it was.
C18_StagingAfterInitializeFails ==
    [][ ( /\ nCalls' = nCalls + 1
          /\ lastCall'.op \in StagingCalls
          /\ pc = "initialized" ) =>
          ( lastCall'.threw /\ EngineState' = EngineState ) ]_vars


\* the last call was a cleanup that returned, made on an initialized engine
CleanedUp ==
    /\ lastCall.op = "cleanup"
    /\ ~ lastCall.threw
    /\ lastCall.after = [ op |-> "initialize", threw |-> FALSE ]

\* C19: a cleanup of an initialized engine leaves no monomer count and no
\* array behind, and the staging that follows it succeeds as on a new
\* engine: setLatticeSize with a valid box returns with the working lattice
\* allocated, and setNrOfAllMonomers returns and sets the monomer count.
C19_CleanupReturnsToPreConfigured ==
    [][ /\ ( CallOf("cleanup") /\ pc = "initialized" /\ ~ lastCall'.threw ) =>
              ( nAllMonomers' = 0 /\ allocated' = {} )
        /\ ( CleanedUp /\ CallOf("setLatticeSize")
             /\ \A k \in 1..3 : /\ IsPowerOfTwo(lastCall'.args[k])
                                /\ inRange(lastCall'.args[k]) ) =>
              ( ~ lastCall'.threw /\ "mLattice" \in allocated' )
        /\ ( CleanedUp /\ CallOf("setNrOfAllMonomers") ) =>
              ( ~ lastCall'.threw /\ nAllMonomers' = lastCall'.args[1] ) ]_vars


\* no setNrOfAllMonomers has been called in this lifecycle: the engine has
\* just been constructed or cleaned up
LifecycleStarts ==
    \/ lastCall.op = "constructor"
    \/ lastCall.op = "cleanup" /\ ~ lastCall.threw

\* setNrOfAllMonomers has just been called in this lifecycle
MonomersJustSet ==
    \/ lastCall.op = "loader"
    \/ lastCall.op = "setNrOfAllMonomers" /\ ~ lastCall.threw

\* C20: the first setNrOfAllMonomers of a lifecycle returns, sets the
\* monomer count, allocates the attribute array and gives every monomer an
\* empty neighbour list; a second one before cleanup throws and leaves
\* monomer count, positions and neighbour lists as they were.
C20_OncePerLifecycle ==
    [][ CallOf("setNrOfAllMonomers") =>
          /\ LifecycleStarts =>
                /\ ~ lastCall'.threw
                /\ nAllMonomers' = lastCall'.args[1]
                /\ "mAttributeSystem" \in allocated'
                /\ mNeighbors' = [ i \in 0..(nAllMonomers' - 1) |-> << >> ]
          /\ MonomersJustSet =>
                /\ lastCall'.threw
                /\ UNCHANGED << nAllMonomers, mPolymerSystem, mNeighbors >> ]_vars


\* C21: setPeriodicity throws exactly when its three flags are not all the
\* build's mode (all true in a periodic build, all false in a non-periodic
\* one), and no member of the engine is changed by the call either way.
C21_PeriodicityMustMatchBuild ==
    [][ CallOf("setPeriodicity") =>
          /\ lastCall'.threw <=>
                ~ \A k \in 1..3 : lastCall'.args[k] = IF NONPERIODICITY THEN 0 ELSE 1
          /\ EngineState' = EngineState ]_vars

\* a call with mixed flags has been refused right after a matching call was
\* accepted
C21_MixedFlagsRefused ==
    /\ lastCall.op = "setPeriodicity"
    /\ lastCall.threw
    /\ lastCall.args \in { << 1, 1, 0 >>, << 0, 1, 0 >> }
    /\ lastCall.after = [ op |-> "setPeriodicity", threw |-> FALSE ]


\* the neighbours setConnectivity has written into the list of monomer i
NeighborsOf(i) ==
    { mNeighbors[i][s] : s \in 1..Len(mNeighbors[i]) } \cap DOMAIN mNeighbors

\* C23: whenever j is in the neighbour list of i, i is in the neighbour list
\* of j.
C23_BondsUndirected ==
    \A i \in DOMAIN mNeighbors : \A j \in NeighborsOf(i) : i \in NeighborsOf(j)


\* C22: a call of initialize on an engine whose bond table does not mark
\* exactly 108 entries as allowed throws and leaves every member of the
\* engine as it was; a call made with 108 allowed entries on an engine that
\* is not initialized returns with the engine initialized.
C22_WrongBondSetRejected ==
    [][ CallOf("initialize") =>
          /\ nAllowedBonds(mForbiddenBonds) # nRequiredAllowedBonds =>
                ( lastCall'.threw /\ EngineState' = EngineState )
          /\ ( /\ nAllowedBonds(mForbiddenBonds) = nRequiredAllowedBonds
               /\ "mLatticeOut" \notin allocated ) =>
                ( ~ lastCall'.threw /\ pc' = "initialized"
                  /\ "mLatticeOut" \in allocated' ) ]_vars

\* the table that made initialize throw has been corrected and initialize
\* can be called again
C22_TableCorrectedAfterThrow ==
    /\ lastCall.op = "copyBondSet"
    /\ lastCall.after = [ op |-> "initialize", threw |-> TRUE ]
    /\ nAllowedBonds(mForbiddenBonds) = nRequiredAllowedBonds
    /\ "mLatticeOut" \notin allocated
    /\ initializeInputs
    /\ nCalls < MaxCalls

(***************************************************************************)
(* C24  Check kernel outcome                                               *)
(***************************************************************************)
\* the workers of the kernel at the head of the queue that have not run
HeadTodo == IF queue = << >> THEN {} ELSE queue[1].todo

\* sorted index of worker m of the kernel at the head of the queue
HeadIndex(m) == iSubGroupOffset[queue[1].iSpecies + 1] + m

\* the step is the run of worker m of the given kernel at the head of the queue
HeadWorkerRuns(kernel, m) ==
    /\ queue[1].kernel = kernel
    /\ queue' = QueueAfter(1, m)

\* position, direction, destination and neighbour count of worker m of the
\* check kernel at the head of the queue
HeadMove(m) ==
    LET data == mPolymerSystemSorted[HeadIndex(m)]
        d == DrawDirection(m, queue[1].seed)
    IN  [ x0 |-> data[1], y0 |-> data[2], z0 |-> data[3], d |-> d,
          nx |-> data[1] + DXTable_d[d + 1],
          ny |-> data[2] + DYTable_d[d + 1],
          nz |-> data[3] + DZTable_d[d + 1],
          k |-> BitAnd(data[4] \div 32, 7) ]

\* the bond from the destination of worker m to one of its k neighbours is
\* marked forbidden in the table
HeadBondForbidden(m) ==
    LET p == HeadMove(m)
    IN  \E iNeighbor \in 0..(p.k - 1) :
            LET j == NeighborAt(mNeighborsSorted,
                         mNeighborsSortedInfo[queue[1].iSpecies + 1].offset
                           + (iNeighbor * mNeighborsSortedInfo[queue[1].iSpecies + 1].pitch)
                           + m)
                q == mPolymerSystemSorted[j]
            IN  linearizeBondVectorIndex(q[1] - p.nx, q[2] - p.ny, q[3] - p.nz)
                  \in dpForbiddenBonds

\* boundary test (non-periodic build only), bond test and face test on the
\* committed lattice all pass for worker m
HeadCheckPasses(m) ==
    LET p == HeadMove(m)
    IN  /\ NONPERIODICITY => ~ OutsideBox(<< p.nx, p.ny, p.nz >>)
        /\ ~ HeadBondForbidden(m)
        /\ ~ checkFront(dcBox, mLatticeOut, p.x0, p.y0, p.z0, p.d)

\* C24: a check worker m sets flags[m] to (d<<2)|1 and the scratch cell of
\* its destination to 1 exactly when the boundary test (non-periodic build
\* only), the bond test against its k neighbours and the face test on the
\* committed lattice all pass; otherwise it sets flags[m] to 0 and writes no
\* lattice cell.  In both cases the committed lattice, and so the monomer's
\* old cell in it, is as it was.
C24_CheckKernelOutcome ==
    [][ \A m \in HeadTodo :
          HeadWorkerRuns("Check", m) =>
              LET p == HeadMove(m)
                  dest == linearizeBoxVectorIndex(dcBox, p.nx, p.ny, p.nz)
                  old == linearizeBoxVectorIndex(dcBox, p.x0, p.y0, p.z0)
              IN  /\ IF HeadCheckPasses(m)
                     THEN /\ mPolymerFlags'[HeadIndex(m)] = (p.d * 4) + 1
                          /\ mLatticeTmp' = mLatticeTmp \cup { dest }
                     ELSE /\ mPolymerFlags'[HeadIndex(m)] = 0
                          /\ mLatticeTmp' = mLatticeTmp
                  /\ mLatticeOut' = mLatticeOut
                  /\ old \in mLatticeOut' ]_vars

\* a completed substep whose check kernel refused a worker on the face test
\* alone, with the flag of a worker a check kernel accepted in memory
C24_AcceptedAndFaceRefused ==
    /\ SubStepComplete
    /\ \E i \in DOMAIN mPolymerFlags : BitAnd(mPolymerFlags[i], 1) = 1
    /\ \E b \in Workers(pre.iSpecies) :
        /\ mPolymerFlags[PreOffset + b] = 0
        /\ ~ ProposalBondForbidden(b)
        /\ NONPERIODICITY =>
              ~ OutsideBox(<< Proposal(b).nx, Proposal(b).ny, Proposal(b).nz >>)
        /\ checkFront(dcBox, pre.D.latOut, Proposal(b).x0, Proposal(b).y0,
                      Proposal(b).z0, Proposal(b).d)

(***************************************************************************)
(* C25  Forbidden-bond enforcement                                         *)
(***************************************************************************)
\* the vectors from the destination of worker m of the check kernel at the
\* head of the queue to its k neighbours
HeadBondVectors(m) ==
    LET p == HeadMove(m)
    IN  { LET q == mPolymerSystemSorted[
                     NeighborAt(mNeighborsSorted,
                         mNeighborsSortedInfo[queue[1].iSpecies + 1].offset
                           + (iNeighbor * mNeighborsSortedInfo[queue[1].iSpecies + 1].pitch)
                           + m)]
          IN  << q[1] - p.nx, q[2] - p.ny, q[3] - p.nz >> :
            iNeighbor \in 0..(p.k - 1) }

\* v with every component of +4 or -4 replaced by its negative
Mirrored(v) == [ c \in 1..3 |-> IF Abs(v[c]) = 4 THEN 0 - v[c] ELSE v[c] ]

\* C25: a check worker whose destination would give a bond vector to one of
\* its k neighbours that the table marks forbidden ends with flag bit 0
\* clear; a component of +4 and one of -4 select the same table entry, so a
\* vector with such a component is refused when that entry is forbidden.
C25_ForbiddenBondEnforced ==
    [][ \A m \in HeadTodo :
          HeadWorkerRuns("Check", m) =>
              \A v \in HeadBondVectors(m) :
                  /\ linearizeBondVectorIndex(v[1], v[2], v[3])
                       = linearizeBondVectorIndex(Mirrored(v)[1], Mirrored(v)[2],
                                                  Mirrored(v)[3])
                  /\ linearizeBondVectorIndex(v[1], v[2], v[3]) \in dpForbiddenBonds
                       => BitAnd(mPolymerFlags'[HeadIndex(m)], 1) = 0 ]_vars

\* the vectors from the proposed position of worker m of the recorded substep
\* to its neighbours
ProposalBondVectors(m) ==
    LET p == Proposal(m)
    IN  { LET q == pre.D.sys[
                     NeighborAt(mNeighborsSorted,
                         mNeighborsSortedInfo[pre.iSpecies + 1].offset
                           + (iNeighbor * mNeighborsSortedInfo[pre.iSpecies + 1].pitch)
                           + m)]
          IN  << q[1] - p.nx, q[2] - p.ny, q[3] - p.nz >> :
            iNeighbor \in 0..(p.k - 1) }

\* a completed substep in which a worker proposed a step that stretches a
\* bond to a component of 4, the table forbids the entry, and its flag is 0
C25_StretchedToFourRefused ==
    /\ SubStepComplete
    /\ \E m \in Workers(pre.iSpecies) :
        /\ \E v \in ProposalBondVectors(m) :
              /\ 4 \in { Abs(v[1]), Abs(v[2]), Abs(v[3]) }
              /\ linearizeBondVectorIndex(v[1], v[2], v[3]) \in dpForbiddenBonds
        /\ mPolymerFlags[PreOffset + m] = 0

(***************************************************************************)
(* C26  Perform kernel outcome                                             *)
(***************************************************************************)
\* position, stored direction and destination of worker m of the perform or
\* zero kernel at the head of the queue
HeadStoredMove(m) ==
    LET data == mPolymerSystemSorted[HeadIndex(m)]
        properties == mPolymerFlags[HeadIndex(m)]
        d == BitAnd(properties \div 4, 7)
    IN  [ x0 |-> data[1], y0 |-> data[2], z0 |-> data[3], w |-> data[4],
          properties |-> properties, d |-> d,
          nx |-> data[1] + DXTable_d[d + 1],
          ny |-> data[2] + DYTable_d[d + 1],
          nz |-> data[3] + DZTable_d[d + 1] ]

\* C26: a perform worker whose flag bit 0 is clear changes nothing; one whose
\* flag bit 0 is set gets flag bit 1 set, its destination cell of the
\* committed lattice set and its source cell cleared exactly when the face
\* test on the scratch lattice finds no occupied cell, and otherwise leaves
\* the flags and the committed lattice as they were; its own scratch mark is
\* set and lies outside the face it tests.
C26_PerformKernelOutcome ==
    [][ \A m \in HeadTodo :
          HeadWorkerRuns("Perform", m) =>
              LET p == HeadStoredMove(m)
                  dest == linearizeBoxVectorIndex(dcBox, p.nx, p.ny, p.nz)
                  src == linearizeBoxVectorIndex(dcBox, p.x0, p.y0, p.z0)
                  face == checkFrontCells(dcBox, p.x0, p.y0, p.z0, p.d)
              IN  IF BitAnd(p.properties, 1) = 0
                  THEN /\ mPolymerFlags' = mPolymerFlags
                       /\ mLatticeOut' = mLatticeOut
                       /\ mLatticeTmp' = mLatticeTmp
                       /\ mPolymerSystemSorted' = mPolymerSystemSorted
                  ELSE /\ dest \in mLatticeTmp
                       /\ dest \notin face
                       /\ IF face \cap mLatticeTmp = {}
                          THEN /\ mPolymerFlags' =
                                    [ mPolymerFlags EXCEPT
                                        ![HeadIndex(m)] = BitOr(p.properties, 2) ]
                               /\ dest \in mLatticeOut'
                               /\ src \notin mLatticeOut'
                               /\ mLatticeOut' \ { dest, src } = mLatticeOut \ { dest, src }
                          ELSE /\ mPolymerFlags' = mPolymerFlags
                               /\ mLatticeOut' = mLatticeOut ]_vars

\* a completed substep whose perform kernel moved an accepted worker: flag
\* bits 0 and 1 set, destination cell of the committed lattice set and source
\* cell cleared
C26_AcceptedWorkerMoved ==
    /\ SubStepComplete
    /\ \E m \in Workers(pre.iSpecies) :
        LET p == Proposal(m)
        IN  /\ mPolymerFlags[PreOffset + m] = (p.d * 4) + 3
            /\ ~ checkFront(dcBox, PhaseStart("Perform").latTmp, p.x0, p.y0, p.z0, p.d)
            /\ linearizeBoxVectorIndex(dcBox, p.nx, p.ny, p.nz) \in mLatticeOut
            /\ linearizeBoxVectorIndex(dcBox, p.x0, p.y0, p.z0) \notin mLatticeOut
            /\ linearizeBoxVectorIndex(dcBox, p.x0, p.y0, p.z0) \in pre.D.latOut

(***************************************************************************)
(* C27  Zero kernel outcome                                                *)
(***************************************************************************)
\* C27: a zero worker whose flag bit 0 is set clears the scratch cell at
\* pos+dir(d); its stored position becomes pos+dir(d) exactly when
\* flags & 3 = 3 and stays as it was otherwise; a worker with flags 0 writes
\* neither its position nor a scratch cell; the tag word is written back as
\* it was.
C27_ZeroKernelOutcome ==
    [][ \A m \in HeadTodo :
          HeadWorkerRuns("Zero", m) =>
              LET p == HeadStoredMove(m)
                  dest == linearizeBoxVectorIndex(dcBox, p.nx, p.ny, p.nz)
                  data == mPolymerSystemSorted'[HeadIndex(m)]
              IN  /\ BitAnd(p.properties, 1) = 1 =>
                        /\ dest \notin mLatticeTmp'
                        /\ mLatticeTmp' = mLatticeTmp \ { dest }
                  /\ << data[1], data[2], data[3] >> =
                        IF BitAnd(p.properties, 3) = 3
                        THEN << p.nx, p.ny, p.nz >>
                        ELSE << p.x0, p.y0, p.z0 >>
                  /\ p.properties = 0 =>
                        /\ mPolymerSystemSorted' = mPolymerSystemSorted
                        /\ mLatticeTmp' = mLatticeTmp
                  /\ data[4] = p.w
                  /\ \A j \in DOMAIN mPolymerSystemSorted :
                        j # HeadIndex(m) =>
                            mPolymerSystemSorted'[j] = mPolymerSystemSorted[j] ]_vars

\* a completed substep in which a worker the check kernel accepted and the
\* perform kernel refused had its scratch mark cleared and kept its position
\* and tag
C27_RefusedMarkCleared ==
    /\ SubStepComplete
    /\ \E m \in Workers(pre.iSpecies) :
        LET p == Proposal(m)
            dest == linearizeBoxVectorIndex(dcBox, p.nx, p.ny, p.nz)
        IN  /\ BitAnd(mPolymerFlags[PreOffset + m], 3) = 1
            /\ dest \in PhaseStart("Zero").latTmp
            /\ dest \notin mLatticeTmp
            /\ mPolymerSystemSorted[PreOffset + m] = pre.D.sys[PreOffset + m]

(***************************************************************************)
(* C28  Shared-resource discipline                                         *)
(***************************************************************************)
\* the step is the run of a worker of the given kernel at the head of the queue
HeadKernelRuns(kernel) == \E m \in HeadTodo : HeadWorkerRuns(kernel, m)

\* C28: a check worker leaves the committed lattice and every position as
\* they were, a perform worker the scratch lattice and every position, a
\* zero worker the committed lattice and every flag; no worker of the three
\* kernels changes the neighbour table.
C28_SharedResourceDiscipline ==
    [][ /\ HeadKernelRuns("Check") =>
              /\ mLatticeOut' = mLatticeOut
              /\ mPolymerSystemSorted' = mPolymerSystemSorted
        /\ HeadKernelRuns("Perform") =>
              /\ mLatticeTmp' = mLatticeTmp
              /\ mPolymerSystemSorted' = mPolymerSystemSorted
        /\ HeadKernelRuns("Zero") =>
              /\ mLatticeOut' = mLatticeOut
              /\ mPolymerFlags' = mPolymerFlags
        /\ (\E kernel \in { "Check", "Perform", "Zero" } : HeadKernelRuns(kernel)) =>
              /\ mNeighborsSorted' = mNeighborsSorted
              /\ mNeighborsSortedInfo' = mNeighborsSortedInfo ]_vars

\* a completed substep in which each kernel wrote: the check kernel a flag
\* and a scratch mark, the perform kernel the committed lattice, the zero
\* kernel a position and the scratch lattice, on a system with bonds
C28_EachKernelWrote ==
    /\ SubStepComplete
    /\ PhaseStart("Perform").flags # pre.D.flags
    /\ PhaseStart("Perform").latTmp # pre.D.latTmp
    /\ PhaseStart("Zero").latOut # pre.D.latOut
    /\ mPolymerSystemSorted # pre.D.sys
    /\ mLatticeTmp = {}
    /\ \E i \in Monomers : Len(mNeighbors[i]) > 0

(***************************************************************************)
(* C29  Index maps                                                         *)
(***************************************************************************)
\* the sorted indices that hold a monomer
SortedImage == { iToiNew[i] : i \in Monomers }

\* C29: when initialize has returned, iToiNew is injective on [0,N),
\* iNewToi[iToiNew[i]] = i for every original index i, every sorted slot
\* outside the image of iToiNew holds UINT32_MAX, and every iToiNew[i] is
\* below the padded length N + (A-1)*C.
C29_IndexMaps ==
    pc = "initialized" =>
        /\ \A i, j \in Monomers : iToiNew[i] = iToiNew[j] => i = j
        /\ \A i \in Monomers : iNewToi[iToiNew[i]] = i
        /\ \A k \in DOMAIN iNewToi : k \notin SortedImage => iNewToi[k] = UINT32_MAX
        /\ \A i \in Monomers :
              /\ iToiNew[i] >= 0
              /\ iToiNew[i] < nAllMonomers
                                + ((nElementsAlignment - 1) * Len(mnElementsInGroup))
        /\ DOMAIN iNewToi
             = 0..(nAllMonomers + ((nElementsAlignment - 1) * Len(mnElementsInGroup)) - 1)

(***************************************************************************)
(* C30  Species layout                                                     *)
(***************************************************************************)
\* the monomers of species c, and the sorted indices they are stored at
MonomersOfSpecies(c) == { i \in Monomers : mGroupIds[i] = c }

RegionOfSpecies(c) == { iToiNew[i] : i \in MonomersOfSpecies(c) }

\* sum over c' < c of ceil( n[c'] / A ) * A
RECURSIVE PaddedSizesBelow(_)
PaddedSizesBelow(c) ==
    IF c = 0 THEN 0
    ELSE PaddedSizesBelow(c - 1)
           + (((mnElementsInGroup[c] + nElementsAlignment - 1) \div nElementsAlignment)
                * nElementsAlignment)

\* C30: when initialize has returned, off[0] = 0 and off[c] is the sum over
\* c' < c of ceil(n[c']/A)*A, a multiple of the alignment A; the monomers of
\* species c are stored at exactly the sorted indices [off[c], off[c]+n[c]),
\* in increasing original-index order, and the regions of two species do
\* not overlap.
C30_SpeciesLayout ==
    pc = "initialized" =>
        LET Species == 0..(Len(mnElementsInGroup) - 1)
            off(c) == iSubGroupOffset[c + 1]
            n(c) == mnElementsInGroup[c + 1]
        IN  /\ Len(iSubGroupOffset) = Len(mnElementsInGroup)
            /\ off(0) = 0
            /\ \A c \in Species :
                  /\ off(c) = PaddedSizesBelow(c)
                  /\ off(c) % nElementsAlignment = 0
                  /\ n(c) = Cardinality(MonomersOfSpecies(c))
                  /\ RegionOfSpecies(c) = off(c)..(off(c) + n(c) - 1)
                  /\ \A i, j \in MonomersOfSpecies(c) :
                        i < j => iToiNew[i] < iToiNew[j]
            /\ \A i \in Monomers : mGroupIds[i] \in Species
            /\ \A c, e \in Species :
                  c # e =>
                      (off(c)..(off(c) + n(c) - 1)) \cap (off(e)..(off(e) + n(e) - 1))
                        = {}

\* initialize has returned on a system of several species, one of them with
\* monomers that are not neighbours in the original order
C30_InterleavedSpecies ==
    /\ pc = "initialized"
    /\ lastCall.op = "initialize"
    /\ ~ lastCall.threw
    /\ Len(mnElementsInGroup) >= 2
    /\ \E i, j \in Monomers :
        /\ i + 1 < j
        /\ mGroupIds[i] = mGroupIds[j]
        /\ mGroupIds[i + 1] # mGroupIds[i]
        /\ iToiNew[j] = iToiNew[i] + 1

(***************************************************************************)
(* C31  Neighbour rewriting                                                *)
(***************************************************************************)
\* where the check kernel launched for species c reads slot k of its worker m
KernelNeighborSlot(c, k, m) ==
    mNeighborsSortedInfo[c + 1].offset + (k * mNeighborsSortedInfo[c + 1].pitch) + m

\* C31: when initialize has returned, whatever colouring the colorer gave,
\* for every monomer i of species c at sorted index off[c]+m and every slot
\* k below its neighbour count, the entry of the neighbour table at matrix
\* offset of c + k*pitch[c] + m, where the check kernel of species c reads
\* it, is iToiNew of the k-th neighbour of i.
C31_NeighborRewriting ==
    (pc = "initialized" /\ lastCall.op = "initialize" /\ ~ lastCall.threw) =>
        \A i \in Monomers : \A k \in 0..(Len(mNeighbors[i]) - 1) :
            LET c == mGroupIds[i]
                m == iToiNew[i] - iSubGroupOffset[c + 1]
            IN  NeighborAt(mNeighborsSorted, KernelNeighborSlot(c, k, m))
                  = iToiNew[mNeighbors[i][k + 1]]

(***************************************************************************)
(* C32  Lattice priming                                                    *)
(***************************************************************************)
InitializeReturned ==
    pc = "initialized" /\ lastCall.op = "initialize" /\ ~ lastCall.threw

\* the corner position of monomer i with every coordinate masked by B-1
MaskedCorner(i) ==
    << BitAnd(mPolymerSystem[i][1], mBox.XM1),
       BitAnd(mPolymerSystem[i][2], mBox.YM1),
       BitAnd(mPolymerSystem[i][3], mBox.ZM1) >>

\* the linear index of the cell with the masked coordinates c
CellIndex(c) == c[1] + (c[2] * Pow2(mBox.XLog2)) + (c[3] * Pow2(mBox.XYLog2))

\* the box edges are the powers of two that the masks and shifts describe
PowerOfTwoBox ==
    /\ mBox.X = mBox.XM1 + 1 /\ mBox.Y = mBox.YM1 + 1 /\ mBox.Z = mBox.ZM1 + 1
    /\ mBox.X = Pow2(mBox.XLog2) /\ mBox.X * mBox.Y = Pow2(mBox.XYLog2)

BoxCells == (0..(mBox.X - 1)) \X (0..(mBox.Y - 1)) \X (0..(mBox.Z - 1))

\* C32: when initialize has returned, the scratch lattice is all zero and
\* the committed lattice holds a non-zero value exactly at the linear index
\* of each monomer's corner position, coordinates masked by B-1, and zero
\* in every other cell; in a box of power-of-two edges that is the cell
\* x + Bx*y + Bx*By*z of the masked corner and no other cell of the box.
C32_LatticePriming ==
    InitializeReturned =>
        /\ mLatticeTmp = {}
        /\ mLatticeOut = { CellIndex(MaskedCorner(i)) : i \in Monomers }
        /\ PowerOfTwoBox =>
              \A c \in BoxCells :
                  (c[1] + (mBox.X * c[2]) + (mBox.X * mBox.Y * c[3])) \in mLatticeOut
                    <=> \E i \in Monomers : MaskedCorner(i) = c

\* initialize has returned for a configuration with a monomer whose x
\* coordinate is the box width, and its cell is set at x = 0
C32_PrimedWithWrappedMonomer ==
    /\ InitializeReturned
    /\ PowerOfTwoBox
    /\ \E i \in Monomers : /\ mPolymerSystem[i][1] = mBox.X
                            /\ CellIndex(MaskedCorner(i)) \in mLatticeOut
                            /\ MaskedCorner(i)[1] = 0
    /\ Cardinality(mLatticeOut) = nAllMonomers

(***************************************************************************)
(* C33  Verifier occupancy check                                           *)
(***************************************************************************)
\* the cells of the cube of monomer i, each coordinate modulo the box edge
WrappedCube(i) ==
    { << (mPolymerSystem[i][1] + d[1]) % mBox.X,
         (mPolymerSystem[i][2] + d[2]) % mBox.Y,
         (mPolymerSystem[i][3] + d[3]) % mBox.Z >> : d \in {0, 1} \X {0, 1} \X {0, 1} }

\* the cells of the cube of monomer i, not wrapped
PlainCube(i) ==
    { << mPolymerSystem[i][1] + d[1], mPolymerSystem[i][2] + d[2],
         mPolymerSystem[i][3] + d[3] >> : d \in {0, 1} \X {0, 1} \X {0, 1} }

nCellsCovered == Cardinality(UNION { WrappedCube(i) : i \in Monomers })

CheckSystemRan == lastCall.op = "checkSystem" /\ "mLattice" \in allocated

\* C33: with checks enabled, checkSystem raises the occupation error
\* exactly when the number of distinct cells covered by the 8 corners of all
\* monomers' cubes, each coordinate wrapped modulo the box, differs from
\* 8*N; it raises no error for a cube that merely straddles the box edge
\* and is apart from every other cube.
C33_VerifierOccupancy ==
    CheckSystemRan =>
        /\ lastCall.args = << "occupation" >> <=> nCellsCovered # 8 * nAllMonomers
        /\ nCellsCovered # 8 * nAllMonomers => lastCall.threw

\* checkSystem raised the occupation error for two cubes that share a cell
\* only across the box edge
C33_OverlapAcrossEdgeDetected ==
    /\ CheckSystemRan
    /\ lastCall.args = << "occupation" >>
    /\ nAllMonomers = 2
    /\ PlainCube(0) \cap PlainCube(1) = {}
    /\ WrappedCube(0) \cap WrappedCube(1) # {}

(***************************************************************************)
(* C34  Verifier bond check                                                *)
(***************************************************************************)
\* some stored neighbour entry (i, j) has pos(j) - pos(i) with a component
\* outside [-3,3] or marked forbidden in the bond table
SomeBondInvalid ==
    \E i \in Monomers : \E k \in 1..Len(mNeighbors[i]) :
        LET j == mNeighbors[i][k]
            d == [ a \in 1..3 |-> mPolymerSystem[j][a] - mPolymerSystem[i][a] ]
        IN  \/ \E a \in 1..3 : d[a] < 0 - 3 \/ d[a] > 3
            \/ linearizeBondVectorIndex(d[1], d[2], d[3]) \in mForbiddenBonds

\* C34: with checks enabled, checkSystem raises an error whenever some
\* stored neighbour entry is invalid, the bond error exactly when there is
\* one and the cubes do not overlap, and no error when all bonds are valid
\* and no cubes overlap.
C34_VerifierBonds ==
    CheckSystemRan =>
        /\ SomeBondInvalid => lastCall.threw
        /\ lastCall.args = << "bond" >>
              <=> (SomeBondInvalid /\ nCellsCovered = 8 * nAllMonomers)
        /\ (~ SomeBondInvalid /\ nCellsCovered = 8 * nAllMonomers) => ~ lastCall.threw

\* checkSystem raised the bond error for a bond of length 5 along x whose
\* table entry, taken modulo 8, is an allowed vector
C34_TooLongBondReported ==
    /\ CheckSystemRan
    /\ lastCall.args = << "bond" >>
    /\ \E i \in Monomers : \E k \in 1..Len(mNeighbors[i]) :
          LET j == mNeighbors[i][k]
          IN  /\ mPolymerSystem[j][1] - mPolymerSystem[i][1] = 5
              /\ linearizeBondVectorIndex(5, mPolymerSystem[j][2] - mPolymerSystem[i][2],
                                             mPolymerSystem[j][3] - mPolymerSystem[i][3])
                    \notin mForbiddenBonds

(***************************************************************************)
(* C35  3x3 face test                                                      *)
(***************************************************************************)
\* the nine cells of the face two cells from origin o in direction d: the
\* coordinate of axis d>>1 is o + 2s, s = +1 for odd d and -1 for even d,
\* the other two are o-1, o, o+1, each taken modulo the box edge
FaceOf(o, d) ==
    LET a == (d \div 2) + 1
        s == IF d % 2 = 1 THEN 1 ELSE 0 - 1
        edge == << dcBox.X, dcBox.Y, dcBox.Z >>
        along(k) == IF k = a THEN { (o[k] + 2 * s) % edge[k] }
                    ELSE { (o[k] + e) % edge[k] : e \in { 0 - 1, 0, 1 } }
    IN  along(1) \X along(2) \X along(3)

\* a cell of the committed lattice is non-zero
Occupied(c) == (c[1] + (dcBox.X * c[2]) + (dcBox.X * dcBox.Y * c[3])) \in mLatticeOut

\* C35: for every origin, negative and out-of-box coordinates included, and
\* every direction d in [0,5], checkFront returns true exactly when at
\* least one of the nine cells of the face of d, coordinates modulo the
\* box, is non-zero in the lattice.
C35_FaceTest ==
    lastCall.op = "checkFront" =>
        LET o == mPolymerSystemSorted[iToiNew[0]]
        IN  lastCall.args[2] <=> \E c \in FaceOf(o, lastCall.args[1]) : Occupied(c)

\* checkFront returned true at an origin with a negative coordinate for a
\* face whose only non-zero cell lies across the wrap of the box
C35_OccupiedAcrossWrap ==
    /\ lastCall.op = "checkFront"
    /\ lastCall.args[2]
    /\ LET o == mPolymerSystemSorted[iToiNew[0]]
           d == lastCall.args[1]
       IN  /\ o[1] < 0
           /\ d = 0
           /\ Cardinality({ c \in FaceOf(o, d) : Occupied(c) }) = 1

(***************************************************************************)
(* C36  Committed lattice matches positions                                *)
(***************************************************************************)
\* the committed-lattice cell of the corner of monomer i
CornerCell(i) ==
    linearizeBoxVectorIndex(dcBox, SortedMonomer(i)[1], SortedMonomer(i)[2],
                            SortedMonomer(i)[3])

\* worker m of the completed substep has moved
MovedInSubStep(m) == BitAnd(mPolymerFlags[PreOffset + m], 3) = 3

\* C36: after initialize and after every substep a cell of the committed
\* lattice is non-zero exactly when it is the masked corner position of some
\* monomer, and the number of such cells is N; in a completed substep no
\* moved worker has cleared (its source) a cell that another moved worker
\* of the substep has set (its destination).
C36_CommittedLatticeMatches ==
    /\ AtSubStepBoundary =>
          /\ mLatticeOut = { CornerCell(i) : i \in Monomers }
          /\ Cardinality(mLatticeOut) = nAllMonomers
    /\ SubStepComplete =>
          \A a, b \in Workers(pre.iSpecies) :
              (a # b /\ MovedInSubStep(a) /\ MovedInSubStep(b)) =>
                  ProposalSource(a) # ProposalDestination(b)

\* a completed substep in which two workers have moved
C36_TwoWorkersMoved ==
    /\ SubStepComplete
    /\ \E a, b \in Workers(pre.iSpecies) :
          /\ a # b /\ MovedInSubStep(a) /\ MovedInSubStep(b)
          /\ ProposalDestination(a) \in mLatticeOut
          /\ ProposalSource(a) \notin mLatticeOut

(***************************************************************************)
(* C37  Per-substep frame                                                  *)
(***************************************************************************)
\* the sorted indices of the monomers of the species of the substep
SelectedIndices == { PreOffset + m : m \in Workers(pre.iSpecies) }

\* from position p to position q is one unit step along one axis, or none
UnitStepOrNone(p, q) ==
    LET d == [ a \in 1..3 |-> IF q[a] >= p[a] THEN q[a] - p[a] ELSE p[a] - q[a] ]
    IN  d[1] + d[2] + d[3] <= 1

\* since the substep began only monomers of its species have changed, each
\* by at most one unit step, and no flag of another slot has changed
FrameSinceSubStepBegan ==
    (Initialized /\ pre.valid) =>
        \A k \in DOMAIN mPolymerSystemSorted :
            IF k \in SelectedIndices
            THEN /\ UnitStepOrNone(pre.D.sys[k], mPolymerSystemSorted[k])
                 /\ mPolymerSystemSorted[k][4] = pre.D.sys[k][4]
            ELSE /\ mPolymerSystemSorted[k] = pre.D.sys[k]
                 /\ mPolymerFlags[k] = pre.D.flags[k]

\* C37: in one substep only monomers of the selected species change
\* position, each by exactly one unit step along one axis or not at all;
\* positions and flags of monomers of every other species and of padding
\* slots are as when the substep began, and no worker of any kernel changes
\* an entry of the neighbour table.
C37_SubStepFrame ==
    [][ /\ FrameSinceSubStepBegan'
        /\ (\E kernel \in { "Check", "Perform", "Zero" } : HeadKernelRuns(kernel))
              => mNeighborsSorted' = mNeighborsSorted ]_vars

\* a completed substep of a system of two species in which a monomer of
\* the selected species has moved
C37_MovedBesideOtherSpecies ==
    /\ SubStepComplete
    /\ Len(mnElementsInGroup) >= 2
    /\ \E k \in SelectedIndices : mPolymerSystemSorted[k] # pre.D.sys[k]
    /\ \E k \in DOMAIN mPolymerSystemSorted :
          k \notin SelectedIndices /\ UGreaterEq(nAllMonomers - 1, iNewToi[k])

(***************************************************************************)
(* C38  Flags are fresh in every substep                                   *)
(***************************************************************************)
\* the check worker m of the substep has run
CheckDone(m) ==
    \/ AtSubStepBoundary
    \/ queue[1].kernel # "Check"
    \/ m \notin queue[1].todo

\* the tests of the check kernel on the memory the substep began with
CheckAccepts(m) ==
    LET p == Proposal(m)
    IN  /\ NONPERIODICITY => ~ OutsideBox(<< p.nx, p.ny, p.nz >>)
        /\ ~ ProposalBondForbidden(m)
        /\ ~ checkFront(dcBox, pre.D.latOut, p.x0, p.y0, p.z0, p.d)

\* C38: once the check worker of a monomer of the selected species has run,
\* and so whenever the perform and zero kernels read its flag, the flag is
\* 0 or holds the direction drawn in this substep with bit 0 set, whatever
\* it held before: a monomer the check kernel refuses has flag 0 and the
\* position it had, and a substep whose workers all have flag 0 leaves both
\* lattices and all positions as they were.  In such a flag bit 1 is set
\* only when bit 0 is set and the direction bits are in [0,5].
C38_FlagsFresh ==
    (Initialized /\ pre.valid) =>
        /\ \A m \in Workers(pre.iSpecies) :
              CheckDone(m) =>
                  LET f == mPolymerFlags[PreOffset + m]
                      d == Proposal(m).d
                  IN  /\ f = 0 \/ f \in { (d * 4) + 1, (d * 4) + 3 }
                      /\ (\/ f # 0
                          \/ mPolymerSystemSorted[PreOffset + m] # pre.D.sys[PreOffset + m])
                            => CheckAccepts(m)
                      /\ BitAnd(f, 2) # 0 => BitAnd(f, 1) # 0
                      /\ BitAnd(f \div 4, 7) \in 0..5
        /\ (SubStepComplete /\ \A m \in Workers(pre.iSpecies) :
                                   mPolymerFlags[PreOffset + m] = 0) =>
              /\ mLatticeOut = pre.D.latOut
              /\ mLatticeTmp = pre.D.latTmp
              /\ mPolymerSystemSorted = pre.D.sys

\* a completed substep that began with a flag saying accepted and moved,
\* whose check worker refused: the flag is 0 and nothing was written
C38_StaleFlagOverwritten ==
    /\ SubStepComplete
    /\ \A m \in Workers(pre.iSpecies) : ~ CheckAccepts(m)
    /\ \E m \in Workers(pre.iSpecies) :
          /\ BitAnd(pre.D.flags[PreOffset + m], 3) = 3
          /\ mPolymerFlags[PreOffset + m] = 0
    /\ mLatticeOut = pre.D.latOut
    /\ mPolymerSystemSorted = pre.D.sys

(***************************************************************************)
(* C39  Neighbour-count tag is preserved                                   *)
(***************************************************************************)
\* bits 5-7 of a tag word
TagCount(w) == BitAnd(w, 224) \div 32

=============================================================================
